---- MODULE Spec2Model ----
(***************************************************************************)
(* R2R pull / validate / sort: the inventory state machine of              *)
(* r2r_sftp_pull.py and the validation and routing of                      *)
(* r2r_validate_sort.py.                                                   *)
(*                                                                         *)
(* A file name is the record [toks, exts]: toks are the '_'-delimited      *)
(* tokens of its stem, exts its '.'-delimited suffixes, so                 *)
(* ENDEAVOR_54321_01.tar.gz is toks <<"ENDEAVOR","54321","01">> and exts   *)
(* <<"tar","gz">>.  A remote path is [dir, name], dir being the date       *)
(* directory under the archive root.  Sizes and free space are counted in  *)
(* one unit (GiB), in which the cushion of 1 TiB is 1024.                  *)
(***************************************************************************)
EXTENDS Integers, Sequences, FiniteSets, TLC

VARIABLES
    archive,          \* what ls prints for each date directory of the archive
    service,          \* what the metadata service answers for each fileset id
    remote,           \* date directories present on the remote archive
    store,            \* DATASETS table, in row order
    staging,          \* files in the landing directory of the pull
    landed,           \* what sort_landing_zone put at the destinations
    pc,               \* position of the running script
    errors,           \* the running script's global errors list
    all_dates,        \* result of connect_to_sftp
    new_inventory,    \* result of check_date_dirs
    space_check,      \* result of landing_space_bytes
    data_type_input,  \* result of get_data_type
    selection,        \* what query_sqlite accumulated and presented
    pulldown_list,    \* result of query_sqlite
    fetched,          \* paths whose fetch ended clean in the last copy_packages
    is_valid,         \* result of validate_tarballs
    checked,          \* per-archive verdicts of the last validate_tarballs
    sortLog,          \* operations sort_landing_zone ran on the batch
    prev,             \* what the previous discovery+enrichment run saw and did
    runs,             \* how many times the operator has started a script
    subproc           \* the frame of a run_subprocess call under study

vars == <<archive, service, remote, store, staging, landed, pc, errors, all_dates, new_inventory,
          space_check, data_type_input, selection, pulldown_list, fetched,
          is_valid, checked, sortLog, prev, runs, subproc>>

----------------------------------------------------------------------------
\* Bounds of the model.

\* Largest free space, above the cushion, that df reports.
MaxFree == 2
\* Largest number the operator types at the package prompt.
MaxChoice == 2
\* How many times the operator starts a script.
MaxRuns == 2
\* Largest size of a record, and how many records, of a store drawn for the
\* Selection Planner.
MaxSize == 2
MaxRecords == 3
\* Largest budget and largest record of the stores of Pending WCSD records.
MaxBudget == 10
MaxBig == 4
\* Longest listing drawn for a date directory.
MaxLines == 3
MaxFails == 1
MaxTries == 5

----------------------------------------------------------------------------
\* File names and the string operations the scripts apply to them.

Nm(toks, exts) == [toks |-> toks, exts |-> exts]

Last(s) == s[Len(s)]
Front(s) == SubSeq(s, 1, Len(s) - 1)

\* Mutant: id_str.endswith('.md5')
HasMd5AtEnd(name) == Len(name.exts) >= 1 /\ name.exts[Len(name.exts)] = "md5"

\* '.md5' in id_str
HasMd5(name) == \E i \in 1..Len(name.exts) : name.exts[i] = "md5"

\* x.endswith('.tar'), x.endswith('.gz'), x.endswith('tar.gz')
EndsWithTar(name) == Len(name.exts) >= 1 /\ Last(name.exts) = "tar"
EndsWithGz(name) == Len(name.exts) >= 1 /\ Last(name.exts) = "gz"
EndsWithTarGz(name) ==
    /\ Len(name.exts) >= 2
    /\ Last(name.exts) = "gz"
    /\ name.exts[Len(name.exts) - 1] = "tar"

\* os.path.splitext(file)[0] + '.md5'
ManifestOf(name) ==
    Nm(name.toks,
       (IF Len(name.exts) >= 1 THEN Front(name.exts) ELSE name.exts) \o <<"md5">>)

\* tarball_path + '.md5'
ChecksumPath(name) == Nm(name.toks, name.exts \o <<"md5">>)

\* gzip_landing_path[:-3]
UngzipName(name) == Nm(name.toks, Front(name.exts))

----------------------------------------------------------------------------
\* The remote archive and the metadata service: the external world.

CutoffDate == <<2021, 1, 1>>

\* datetime.strptime(date, "%Y-%m-%d"); <<>> stands for ValueError.
Strptime(date) ==
    CASE date = "2021-01-01" -> <<2021, 1, 1>>
      [] date = "2021-01-02" -> <<2021, 1, 2>>
      [] date = "2022-05-01" -> <<2022, 5, 1>>
      [] date = "2022-06-01" -> <<2022, 6, 1>>
      [] OTHER -> <<>>

\* dt > datetime(2021, 1, 1)
DateAfter(a, b) ==
    \/ a[1] > b[1]
    \/ a[1] = b[1] /\ a[2] > b[2]
    \/ a[1] = b[1] /\ a[2] = b[2] /\ a[3] > b[3]

\* The date directories the archive can hold, in the order ls prints them.
DateNames == <<"2021-01-01", "2022-05-01", "2022-06-01">>

Range(s) == {s[i] : i \in 1..Len(s)}

pkgOld == Nm(<<"OLD", "00001", "01">>, <<"tar", "gz">>)
pkgCruise == Nm(<<"CRUISE", "12345", "01">>, <<"tar">>)
pkgAtlantis == Nm(<<"ATLANTIS", "22222", "01">>, <<"tar", "gz">>)
pkgEndeavor == Nm(<<"ENDEAVOR", "54321", "01">>, <<"tar", "gz">>)
pkgRevelle == Nm(<<"REVELLE", "33333", "01">>, <<"tar", "gz">>)

\* ls -l of a date directory, one name per line, as the archive lays it out:
\* each package with its manifest <stem>.tar.md5.
StandardListing(date) ==
    CASE date = "2021-01-01" ->
            <<pkgOld, ChecksumPath(UngzipName(pkgOld))>>
      [] date = "2022-05-01" ->
            <<pkgCruise, ChecksumPath(pkgCruise)>>
      [] date = "2022-06-01" ->
            <<pkgAtlantis, ChecksumPath(UngzipName(pkgAtlantis)),
              pkgEndeavor, ChecksumPath(UngzipName(pkgEndeavor)),
              pkgRevelle, ChecksumPath(UngzipName(pkgRevelle))>>
      [] OTHER -> <<>>

StandardArchive == [d \in Range(DateNames) |-> StandardListing(d)]

\* return_list of check_date_dirs: the lines ls prints for a date directory.
Listing(date) == IF date \in DOMAIN archive THEN archive[date] ELSE <<>>

\* The fileset metadata the service holds for the packages of the archive.
StandardMeta(id) ==
    CASE id = "12345" ->
            [cruise_id |-> "CR01", vessel_name |-> "Cruise",
             make_model_name |-> "EK60", device_name |-> "Splitbeam Sonar",
             total_bytes |-> 1]
      [] id = "22222" ->
            [cruise_id |-> "AT02", vessel_name |-> "Atlantis",
             make_model_name |-> "EM122 [Water Column]",
             device_name |-> "Multibeam Sonar", total_bytes |-> 1]
      [] id = "54321" ->
            [cruise_id |-> "EN03", vessel_name |-> "Endeavor",
             make_model_name |-> "EM122", device_name |-> "Multibeam Sonar",
             total_bytes |-> 1]
      [] id = "33333" ->
            [cruise_id |-> "RR04", vessel_name |-> "Revelle",
             make_model_name |-> "BGM-3", device_name |-> "Gravimeter",
             total_bytes |-> 1]
      [] OTHER ->
            [cruise_id |-> "XX00", vessel_name |-> "Other",
             make_model_name |-> "Unknown", device_name |-> "Other",
             total_bytes |-> 0]

FilesetIds == {"00001", "12345", "22222", "54321", "33333"}

StandardService == [id \in FilesetIds |-> StandardMeta(id)]

\* r2r_fileset_metadata['data'][0] of the request for a fileset id.
MetaOf(id) == IF id \in DOMAIN service THEN service[id] ELSE StandardMeta(id)

\* The device and model names the service can answer with.
InstrumentTypes ==
    {"Multibeam Sonar", "Splitbeam Sonar", "Gravimeter", "Magnetometer",
     "Singlebeam Sonar", "ADCP"}

InstrumentNames ==
    {"EM122", "EM122 [water column]", "EM122 [Watercolumn]", "EM122 [Water Column]",
     "EM122 [watercolumn]", "EM122 [WATER COLUMN]", "Knudsen [includes subbottom]",
     "EK60", "BGM-3"}

\* wcsd_str
WcsdStr == {"[water column]", "[Watercolumn]", "[Water Column]", "[watercolumn]"}

\* The bracketed remarks a model name carries.
MarkersIn(instrument) ==
    CASE instrument = "EM122 [water column]" -> {"[water column]"}
      [] instrument = "EM122 [Watercolumn]" -> {"[Watercolumn]"}
      [] instrument = "EM122 [Water Column]" -> {"[Water Column]"}
      [] instrument = "EM122 [watercolumn]" -> {"[watercolumn]"}
      [] instrument = "EM122 [WATER COLUMN]" -> {"[WATER COLUMN]"}
      [] instrument = "Knudsen [includes subbottom]" -> {"[includes subbottom]"}
      [] OTHER -> {}

\* string in instrument
ContainsMarker(instrument, marker) == marker \in MarkersIn(instrument)

\* Mutant: the water-column markers looked for whatever the device is.
ClassifyMarkerFirst(instrument_type, instrument) ==
    IF \E s \in WcsdStr : ContainsMarker(instrument, s) THEN "WCSD"
    ELSE IF instrument_type = "Multibeam Sonar" THEN "Multibeam"
    ELSE IF instrument_type = "Splitbeam Sonar" THEN "WCSD"
    ELSE "Trackline"

\* The data type build_sqlite derives from the instrument fields.
Classify(instrument_type, instrument) ==
    IF instrument_type = "Multibeam Sonar"
    THEN IF \E s \in WcsdStr : ContainsMarker(instrument, s)
         THEN "WCSD" ELSE "Multibeam"
    ELSE IF instrument_type = "Splitbeam Sonar" THEN "WCSD"
    ELSE "Trackline"

----------------------------------------------------------------------------
\* Values a Python name can hold besides a list: 0 and None.

ListVal(s) == [kind |-> "list", val |-> s]
ZeroVal == [kind |-> "zero", val |-> <<>>]
NoneVal == [kind |-> "none", val |-> <<>>]

----------------------------------------------------------------------------
\* connect_to_sftp: the date directories of the archive root.

ConnectOutcomes == {"ok", "nomatch", "error"}

\* The names ls prints for the root, README removed.
RemoteDates == SelectSeq(DateNames, LAMBDA d : d \in remote)

ConnectResult(outcome) ==
    CASE outcome = "ok" -> ListVal(RemoteDates)
      [] outcome = "nomatch" -> ZeroVal
      [] OTHER -> NoneVal

ConnectErrors(outcome) ==
    IF outcome = "error" THEN <<"Error in sftp_server">> ELSE <<>>

----------------------------------------------------------------------------
\* check_date_dirs: the candidates of the date directories new to the store.


\* Mutant: db_date_list built from the pulled records only.
KnownDatesPulledOnly(st) ==
    {st[i].date_dir : i \in {j \in 1..Len(st) : st[j].been_pulled = "Y"}}

\* db_date_list: the DATE_DIR values of the store.
KnownDates(st) == {st[i].date_dir : i \in 1..Len(st)}


\* Mutant: the comparison with the store's dates left out.
IsNewDateAlways(date, st) == TRUE

\* The date is compared with the store's dates before anything else.
IsNewDate(date, st) == date \notin KnownDates(st)

\* Mutant: the first malformed line ends the loop over the listing.
RECURSIVE DirCandidatesAbort(_, _, _)
DirCandidatesAbort(date, lines, acc) ==
    IF lines = <<>> THEN acc
    ELSE LET line == Head(lines) IN
         IF Len(line.toks) = 0 \/ (~HasMd5(line) /\ Len(line.toks) < 2)
         THEN [acc EXCEPT !.errs = @ \o <<"IndexError">>]
         ELSE DirCandidatesAbort(date, Tail(lines),
                IF HasMd5(line) THEN acc
                ELSE [acc EXCEPT !.cands = @ \o
                        <<[r2r_id |-> line.toks[Len(line.toks) - 1],
                           package_path |-> [dir |-> date, name |-> line]]>>])

\* The candidates of one listing, and the errors of its malformed lines.
RECURSIVE DirCandidates(_, _, _)
DirCandidates(date, lines, acc) ==
    IF lines = <<>> THEN acc
    ELSE LET line == Head(lines)
             next ==
                 IF Len(line.toks) = 0
                 THEN [acc EXCEPT !.errs = @ \o <<"IndexError">>]
                 ELSE IF HasMd5(line) THEN acc
                 ELSE IF Len(line.toks) < 2
                 THEN [acc EXCEPT !.errs = @ \o <<"IndexError">>]
                 ELSE [acc EXCEPT !.cands = @ \o
                         <<[r2r_id |-> line.toks[Len(line.toks) - 1],
                            package_path |-> [dir |-> date, name |-> line]]>>]
         IN DirCandidates(date, Tail(lines), next)

ListOutcomes == {"ok", "nomatch", "error"}

\* The loop of check_date_dirs over date_list.  ret is "dict" when the
\* mapping is returned, "zero" when a listing matched no objects (return 0),
\* "crash" when strptime raised ValueError, which nothing catches.
RECURSIVE CheckLoop(_, _, _, _)
CheckLoop(dates, st, outcome, acc) ==
    IF dates = <<>> THEN acc
    ELSE LET date == Head(dates) IN
         IF ~IsNewDate(date, st) THEN CheckLoop(Tail(dates), st, outcome, acc)
         ELSE IF Strptime(date) = <<>> THEN [acc EXCEPT !.ret = "crash"]
         ELSE IF ~DateAfter(Strptime(date), CutoffDate)
         THEN CheckLoop(Tail(dates), st, outcome, acc)
         ELSE IF outcome[date] = "nomatch" THEN [acc EXCEPT !.ret = "zero"]
         ELSE IF outcome[date] = "error"
         THEN CheckLoop(Tail(dates), st, outcome,
                        [acc EXCEPT !.errs = @ \o <<"Error in file_path">>])
         ELSE LET dc == DirCandidates(date, Listing(date),
                                      [cands |-> <<>>, errs |-> <<>>])
              IN CheckLoop(Tail(dates), st, outcome,
                   IF Len(Listing(date)) > 0
                   THEN [acc EXCEPT !.inv = @ \o <<[date |-> date, cands |-> dc.cands]>>,
                                    !.errs = @ \o dc.errs]
                   ELSE acc)

CheckDateDirs(date_list, st, outcome) ==
    IF date_list.kind # "list"
    THEN [ret |-> "crash", inv |-> <<>>, errs |-> <<>>]
    ELSE CheckLoop(date_list.val, st, outcome,
                   [ret |-> "dict", inv |-> <<>>, errs |-> <<>>])

\* All candidates of an inventory, in the order build_sqlite visits them.
RECURSIVE Flatten(_)
Flatten(inv) ==
    IF inv = <<>> THEN <<>>
    ELSE [i \in 1..Len(Head(inv).cands) |->
             [r2r_id |-> Head(inv).cands[i].r2r_id,
              package_path |-> Head(inv).cands[i].package_path,
              date |-> Head(inv).date]] \o Flatten(Tail(inv))

CandidatePaths(inv) == {c.package_path : c \in Range(Flatten(inv))}
InventoryDates(inv) == {inv[i].date : i \in 1..Len(inv)}

----------------------------------------------------------------------------
\* build_sqlite: metadata lookup, classification and insert of each candidate.

BuildOutcomes == {"ok", "request_error", "sqlite_error"}

\* Mutant: the record is written as already pulled.
NewRecordPulled(cand) ==
    LET m == MetaOf(cand.r2r_id) IN
    [fileset_id |-> cand.r2r_id,
     cruise_id |-> m.cruise_id,
     platform_name |-> m.vessel_name,
     instrument_name |-> m.make_model_name,
     instrument_type |-> m.device_name,
     size_bytes |-> m.total_bytes,
     package_path |-> cand.package_path,
     date_dir |-> cand.date,
     data_type |-> Classify(m.device_name, m.make_model_name),
     been_pulled |-> "Y"]

NewRecord(cand) ==
    LET m == MetaOf(cand.r2r_id) IN
    [fileset_id |-> cand.r2r_id,
     cruise_id |-> m.cruise_id,
     platform_name |-> m.vessel_name,
     instrument_name |-> m.make_model_name,
     instrument_type |-> m.device_name,
     size_bytes |-> m.total_bytes,
     package_path |-> cand.package_path,
     date_dir |-> cand.date,
     data_type |-> Classify(m.device_name, m.make_model_name),
     been_pulled |-> "N"]


\* Mutant: the insert executed twice.
InsertRecordTwice(st, rec) == Append(Append(st, rec), rec)

\* insert into DATASETS ...; db.commit()
InsertRecord(st, rec) == Append(st, rec)

\* DATASETS is keyed by PACKAGE_PATH: the insert of a path the table holds
\* raises sqlite3.IntegrityError, a sqlite3.Error.
ViolatesKey(st, rec) == \E i \in 1..Len(st) : st[i].package_path = rec.package_path

\* Mutant: a sqlite3.Error ends the loop over the candidates.
RECURSIVE BuildLoopStop(_, _, _)
BuildLoopStop(cands, outcome, acc) ==
    IF cands = <<>> THEN acc
    ELSE LET c == Head(cands)
             o == outcome[c.package_path]
         IN CASE o = "ok" /\ ~ViolatesKey(acc.store, NewRecord(c)) ->
                   BuildLoopStop(Tail(cands), outcome,
                     [acc EXCEPT !.store = InsertRecord(@, NewRecord(c))])
              [] o = "request_error" ->
                   BuildLoopStop(Tail(cands), outcome,
                     [acc EXCEPT !.errs = @ \o <<"RequestException">>,
                                 !.failed = @ \cup {c.package_path}])
              [] OTHER ->
                   [acc EXCEPT !.errs = @ \o <<"sqlite3.Error">>]

RECURSIVE BuildLoop(_, _, _)
BuildLoop(cands, outcome, acc) ==
    IF cands = <<>> THEN acc
    ELSE LET c == Head(cands)
             o == outcome[c.package_path]
         IN BuildLoop(Tail(cands), outcome,
              CASE o = "ok" /\ ~ViolatesKey(acc.store, NewRecord(c)) ->
                     [acc EXCEPT !.store = InsertRecord(@, NewRecord(c))]
                [] o = "request_error" ->
                     [acc EXCEPT !.errs = @ \o <<"RequestException">>,
                                 !.failed = @ \cup {c.package_path}]
                [] OTHER ->
                     [acc EXCEPT !.errs = @ \o <<"sqlite3.Error">>])

BuildSqliteResult(inv, st, outcome) ==
    BuildLoop(Flatten(inv), outcome, [store |-> st, errs |-> <<>>, failed |-> {}])

----------------------------------------------------------------------------
\* landing_space_bytes and get_data_type of the pull script.

\* minimum=1024: the cushion, 1 TiB counted in GiB.
Minimum == 1024

\* What df does: it fails, prints no number, or prints the bytes available.
SpaceOutcomes ==
    {[probe |-> "df_fail", avail |-> 0], [probe |-> "parse_fail", avail |-> 0]}
    \cup {[probe |-> "ok", avail |-> n] : n \in (Minimum - 1)..(Minimum + MaxFree)}

\* convert_size: math.log(pkg_bytes, 1024) raises ValueError, 'math domain
\* error', for a negative number of bytes; 0 is answered before the logarithm.
ConvertSizeRaises(pkg_bytes) == pkg_bytes < 0

\* Mutant: the free space taken as df printed it, the cushion left out.
LandingSpaceBytesNoCushion(outcome) ==
    IF outcome.probe # "ok"
    THEN [kind |-> "false", free |-> 0, ok |-> FALSE]
    ELSE [kind |-> "tuple", free |-> outcome.avail, ok |-> TRUE]

\* landing_space_bytes: False, or the pair (free_space, space >= min_space).
\* human_readable = convert_size(int(free_space)) is inside the try whose
\* except returns False, and it comes before the comparison.
LandingSpaceBytes(outcome) ==
    IF outcome.probe # "ok" \/ ConvertSizeRaises(outcome.avail - Minimum)
    THEN [kind |-> "false", free |-> 0, ok |-> FALSE]
    ELSE [kind |-> "tuple", free |-> outcome.avail - Minimum,
          ok |-> outcome.avail >= Minimum]

\* What the operator types at the data type prompt.
TypeChoices == {"", "1", "2", "3", "4", "x"}

\* get_data_type: the data type chosen, or None.
GetDataTypeResult(free_ok, choice) ==
    IF ~free_ok THEN "None"
    ELSE CASE choice = "" \/ choice = "1" -> "WCSD"
           [] choice = "2" -> "Multibeam"
           [] choice = "3" -> "Trackline"
           [] OTHER -> "None"

----------------------------------------------------------------------------
\* query_sqlite: the records offered under the budget and the operator's pick.

\* Mutant: the query without its BEEN_PULLED condition.
PendingOfTypeAnyStatus(st, data_type) ==
    SelectSeq(st, LAMBDA r : r.data_type = data_type)

\* SELECT * FROM DATASETS WHERE BEEN_PULLED = "N" AND DATA_TYPE LIKE :data
PendingOfType(st, data_type) ==
    SelectSeq(st, LAMBDA r : r.been_pulled = "N" /\ r.data_type = data_type)

\* package_dict[package_id] = [...]: a new key is appended, a known key keeps
\* its place and takes the new value.
DictPut(dict, key, entry) ==
    IF \E i \in 1..Len(dict) : dict[i].key = key
    THEN [i \in 1..Len(dict) |-> IF dict[i].key = key THEN entry ELSE dict[i]]
    ELSE Append(dict, entry)


\* Mutant: the budget compared with <=.
UnderBudgetInclusive(byte_counter, free_space) == byte_counter <= free_space

\* if byte_counter < free_space
UnderBudget(byte_counter, free_space) == byte_counter < free_space

\* Mutant: a record is taken only when the total after it stays under the
\* budget.
RECURSIVE AccumulateStrict(_, _, _)
AccumulateStrict(results, free_space, acc) ==
    IF results = <<>> THEN acc
    ELSE LET e == Head(results) IN
         AccumulateStrict(Tail(results), free_space,
            IF acc.byte_counter + e.size_bytes < free_space
            THEN [byte_counter |-> acc.byte_counter + e.size_bytes,
                  accumulated |-> Append(acc.accumulated, e),
                  package_dict |->
                      DictPut(acc.package_dict,
                              <<e.cruise_id, e.instrument_name>>,
                              [key |-> <<e.cruise_id, e.instrument_name>>,
                               path |-> e.package_path,
                               size |-> e.size_bytes])]
            ELSE acc)

\* The loop over the rows of the query.
RECURSIVE Accumulate(_, _, _)
Accumulate(results, free_space, acc) ==
    IF results = <<>> THEN acc
    ELSE LET e == Head(results) IN
         Accumulate(Tail(results), free_space,
            IF UnderBudget(acc.byte_counter, free_space)
            THEN [byte_counter |-> acc.byte_counter + e.size_bytes,
                  accumulated |-> Append(acc.accumulated, e),
                  package_dict |->
                      DictPut(acc.package_dict,
                              <<e.cruise_id, e.instrument_name>>,
                              [key |-> <<e.cruise_id, e.instrument_name>>,
                               path |-> e.package_path,
                               size |-> e.size_bytes])]
            ELSE acc)

EmptySelection == [byte_counter |-> 0, accumulated |-> <<>>, package_dict |-> <<>>]

Selection(st, data_type, free_space) ==
    Accumulate(PendingOfType(st, data_type), free_space, EmptySelection)

\* One comma-separated piece of the operator's answer.
NumTok(n) == [kind |-> "num", a |-> n, b |-> n]
RangeTok(a, b) == [kind |-> "range", a |-> a, b |-> b]
BadTok == [kind |-> "bad", a |-> 0, b |-> 0]

ChoiceInputs ==
    {<<NumTok(n)>> : n \in 0..MaxChoice}
    \cup {<<RangeTok(a, b)>> : a \in 1..MaxChoice, b \in 1..MaxChoice}
    \cup {<<BadTok>>}
    \cup {<<NumTok(n), NumTok(m)>> : n \in 0..MaxChoice, m \in 1..MaxChoice}
    \cup {<<NumTok(1), BadTok>>}

\* choice_numbers, the set the pieces add up to.
ChoiceNumbers(input) ==
    UNION {input[i].a .. input[i].b : i \in 1..Len(input)}

RECURSIVE SortedSeq(_)
SortedSeq(S) ==
    IF S = {} THEN <<>>
    ELSE LET m == CHOOSE x \in S : \A y \in S : x <= y
         IN <<m>> \o SortedSeq(S \ {m})

\* The answer of query_sqlite: ret is "list" with the download list, "none"
\* for None, "crash" when int() raises ValueError on a piece.
QueryResult(sel, input) ==
    IF Len(sel.package_dict) = 0 THEN [ret |-> "none", list |-> <<>>]
    ELSE IF \E i \in 1..Len(input) : input[i].kind = "bad"
    THEN [ret |-> "crash", list |-> <<>>]
    ELSE LET nums == ChoiceNumbers(input)
             valid == {c \in nums : 1 <= c /\ c <= Len(sel.package_dict)}
             order == SortedSeq(valid)
         IN IF Cardinality(valid) # Cardinality(nums)
            THEN [ret |-> "none", list |-> <<>>]
            ELSE IF valid = {} THEN [ret |-> "none", list |-> <<>>]
            ELSE [ret |-> "list",
                  list |-> [i \in 1..Len(order) |-> sel.package_dict[order[i]].path]]

----------------------------------------------------------------------------
\* copy_packages: fetch of each chosen path and of its manifest.

\* A fetch: sftp's return code, the lines it wrote to stderr, and whether
\* the file arrived in the landing directory.
FetchOutcomes ==
    {[rc |-> 0, err |-> 1, got |-> TRUE],
     [rc |-> 0, err |-> 2, got |-> TRUE],
     [rc |-> 0, err |-> 1, got |-> FALSE],
     [rc |-> 1, err |-> 1, got |-> FALSE],
     [rc |-> 1, err |-> 2, got |-> FALSE]}

OnRemote(path) == path.dir \in remote /\ path.name \in Range(Listing(path.dir))

\* all_paths = dir_list + manifests
AllPaths(dir_list) ==
    dir_list \o [i \in 1..Len(dir_list) |->
                    [dir |-> dir_list[i].dir, name |-> ManifestOf(dir_list[i].name)]]


\* Mutant: the update writes every row, 'Y' for the path and 'N' for the rest.
UpdatePulledOnly(st, path) ==
    [i \in 1..Len(st) |->
        [st[i] EXCEPT !.been_pulled =
            IF st[i].package_path = path THEN "Y" ELSE "N"]]

\* Mutant: the row found by directory and file stem, not by the whole path.
UpdatePulledByStem(st, path) ==
    [i \in 1..Len(st) |->
        IF /\ st[i].package_path.dir = path.dir
           /\ st[i].package_path.name.toks = path.name.toks
        THEN [st[i] EXCEPT !.been_pulled = "Y"]
        ELSE st[i]]

\* update DATASETS set BEEN_PULLED = 'Y' where PACKAGE_PATH = :path
UpdatePulled(st, path) ==
    [i \in 1..Len(st) |->
        IF st[i].package_path = path THEN [st[i] EXCEPT !.been_pulled = "Y"]
        ELSE st[i]]


\* Mutant: the stderr check left out.
FetchPassedIgnoreStderr(o, package, landing) ==
    /\ o.rc = 0
    /\ package \in landing

\* Mutant: the look into the landing directory left out.
FetchPassedIgnoreLanding(o, package, landing) ==
    /\ ~(o.err > 1)
    /\ o.rc = 0

\* The checks between the fetch and the update.
FetchPassed(o, package, landing) ==
    /\ ~(o.err > 1)
    /\ o.rc = 0
    /\ package \in landing

RECURSIVE CopyLoop(_, _, _)
CopyLoop(paths, outcome, acc) ==
    IF paths = <<>> THEN acc
    ELSE LET path == Head(paths)
             o == outcome[path]
             landing == IF o.got THEN acc.staging \cup {path.name} ELSE acc.staging
         IN CopyLoop(Tail(paths), outcome,
              [store |-> IF FetchPassed(o, path.name, landing)
                         THEN UpdatePulled(acc.store, path) ELSE acc.store,
               staging |-> landing,
               errs |-> IF o.err > 1 THEN acc.errs \o <<"sftp stderr">>
                        ELSE acc.errs])

CopyResult(dir_list, st, stg, outcome) ==
    CopyLoop(AllPaths(dir_list), outcome,
             [store |-> st, staging |-> stg, errs |-> <<>>])

\* The paths whose fetch returned 0 and wrote at most one line to stderr.
CleanFetches(paths, outcome) ==
    {p \in Range(paths) : outcome[p].rc = 0 /\ ~(outcome[p].err > 1)}

\* The outcomes the fetches of these paths can have: a path the archive does
\* not hold never arrives.
FetchChoices(paths) ==
    {f \in [Range(paths) -> FetchOutcomes] :
        \A p \in Range(paths) : f[p].got => OnRemote(p)}

----------------------------------------------------------------------------
\* validate_tarballs: checksum of every archive of the landing directory.

\* A checksum: its hex digits (abstractly) and how many they are.
Sum(hex, len) == [hex |-> hex, len |-> len]

\* Two archives of a landing directory: the manifest of the first holds
\* nothing but white space, that of the second a checksum one digit short.
pkgBlank == Nm(<<"BLANK", "44444", "01">>, <<"tar">>)
pkgShort == Nm(<<"SHORT", "55555", "01">>, <<"tar">>)

\* What md5sum prints for an archive.
Md5Of(name) == Sum(name.toks, 32)

\* fid.read().split(): the whitespace-delimited tokens of a manifest.  The
\* manifest of ATLANTIS_22222_01 holds another archive's checksum.
ManifestTokens(manifest) ==
    IF manifest.toks = pkgAtlantis.toks
    THEN <<Sum(pkgOld.toks, 32)>>
    ELSE IF manifest.toks = pkgBlank.toks THEN <<>>
    ELSE IF manifest.toks = pkgShort.toks THEN <<Sum(manifest.toks, 31)>>
    ELSE <<Sum(manifest.toks, 32)>>

\* os.listdir: the names of a directory, in directory order.
DirOrder ==
    <<pkgEndeavor, UngzipName(pkgEndeavor), ManifestOf(pkgEndeavor),
      pkgAtlantis, UngzipName(pkgAtlantis), ManifestOf(pkgAtlantis),
      pkgRevelle, UngzipName(pkgRevelle), ManifestOf(pkgRevelle),
      pkgCruise, ManifestOf(pkgCruise),
      pkgBlank, ChecksumPath(pkgBlank), pkgShort, ChecksumPath(pkgShort)>>

ListDir(dir) == SelectSeq(DirOrder, LAMBDA n : n \in dir)

Md5Outcomes == {"ok", "stderr"}

\* The 'Fail' entries one archive adds to errors.
ArchiveFails(tar, stg, md5) ==
    IF ChecksumPath(tar) \in stg
    THEN LET checksum == ManifestTokens(ChecksumPath(tar))[1] IN
         (IF checksum.len # 32 THEN <<"Fail">> ELSE <<>>)
         \o (IF md5 = "stderr" THEN <<"Fail">>
             ELSE IF checksum = Md5Of(tar) THEN <<>> ELSE <<"Fail">>)
    ELSE <<"Fail">>

RECURSIVE ValidateLoop(_, _, _)
ValidateLoop(paths, outcome, acc) ==
    IF paths = <<>> THEN acc
    ELSE LET path == Head(paths)
             tar == IF EndsWithGz(path) THEN UngzipName(path) ELSE path
             stg == IF EndsWithGz(path)
                    THEN (acc.staging \ {path}) \cup {tar} ELSE acc.staging
         IN IF ChecksumPath(tar) \in stg
               /\ Len(ManifestTokens(ChecksumPath(tar))) = 0
            THEN [acc EXCEPT !.ret = "crash", !.staging = stg]
            ELSE LET fails == ArchiveFails(tar, stg, outcome[path]) IN
                 ValidateLoop(Tail(paths), outcome,
                    [acc EXCEPT !.staging = stg,
                                !.errs = @ \o fails,
                                !.checked = Append(@, [name |-> tar,
                                                       ok |-> fails = <<>>])])


\* Mutant: one 'Fail' is let through.
VerdictOffByOne(errs) == IF Len(errs) > 1 THEN "false" ELSE "true"

\* return False if len(errors) > 0 else True
Verdict(errs) == IF Len(errs) > 0 THEN "false" ELSE "true"

ValidateTarballs(stg, errs, outcome) ==
    LET paths == SelectSeq(ListDir(stg), LAMBDA x : EndsWithTar(x) \/ EndsWithGz(x))
        r == ValidateLoop(paths, outcome,
                          [ret |-> "run", staging |-> stg, errs |-> errs,
                           checked |-> <<>>])
    IN IF r.ret = "crash" THEN r ELSE [r EXCEPT !.ret = Verdict(r.errs)]

----------------------------------------------------------------------------
\* sort_landing_zone: routing of every tarball of a validated batch.


\* Mutant: no rule asks for extraction.
UntarNever(rule) == FALSE

\* DATA_TYPES: the untar flag of each rule.
Untar(rule) ==
    CASE rule \in {"Multibeam Sonar", "Subbottom", "Singlebeam Sonar",
                   "Splitbeam Sonar", "WCD Multibeam"} -> TRUE
      [] OTHER -> FALSE

\* Mutant: no look for the subbottom marker.
GuidanceNoSubbottom(data_group, data_type, instrument_name) ==
    CASE data_group = "WCSD" ->
            IF data_type = "Splitbeam Sonar" THEN "Splitbeam Sonar" ELSE "WCD Multibeam"
      [] data_group = "Multibeam" -> "Multibeam Sonar"
      [] data_group = "Trackline" ->
            (CASE data_type = "Gravimeter" -> "Gravimeter"
               [] data_type = "Magnetometer" -> "Magnetometer"
               [] data_type = "Singlebeam Sonar" -> "Singlebeam Sonar"
               [] OTHER -> "None")
      [] OTHER -> "None"

\* The rule of a record; "None" when guidance stays None.
Guidance(data_group, data_type, instrument_name) ==
    CASE data_group = "WCSD" ->
            IF data_type = "Splitbeam Sonar" THEN "Splitbeam Sonar" ELSE "WCD Multibeam"
      [] data_group = "Multibeam" -> "Multibeam Sonar"
      [] data_group = "Trackline" ->
            (CASE data_type = "Gravimeter" -> "Gravimeter"
               [] data_type = "Magnetometer" -> "Magnetometer"
               [] data_type = "Singlebeam Sonar" ->
                    IF ContainsMarker(instrument_name, "[includes subbottom]")
                    THEN "Subbottom" ELSE "Singlebeam Sonar"
               [] OTHER -> "None")
      [] OTHER -> "None"

\* What the commands run for one tarball do: mkdir, the free-space probe
\* ("fail": df fails or prints no number; "short": less than the cushion is
\* free, convert_size raises on the negative budget; landing_space_bytes
\* returns False in both cases and subscripting it raises TypeError), tar or
\* rsync, rm, rm of the manifest.
SortOutcomes ==
    {[mkdir |-> TRUE, space |-> "enough", xfer |-> TRUE, rm |-> TRUE, rm_md5 |-> TRUE],
     [mkdir |-> FALSE, space |-> "enough", xfer |-> TRUE, rm |-> TRUE, rm_md5 |-> TRUE],
     [mkdir |-> TRUE, space |-> "fail", xfer |-> TRUE, rm |-> TRUE, rm_md5 |-> TRUE],
     [mkdir |-> TRUE, space |-> "short", xfer |-> TRUE, rm |-> TRUE, rm_md5 |-> TRUE],
     [mkdir |-> TRUE, space |-> "enough", xfer |-> FALSE, rm |-> TRUE, rm_md5 |-> TRUE],
     [mkdir |-> TRUE, space |-> "enough", xfer |-> TRUE, rm |-> FALSE, rm_md5 |-> TRUE],
     [mkdir |-> TRUE, space |-> "enough", xfer |-> TRUE, rm |-> TRUE, rm_md5 |-> FALSE]}

\* SELECT * FROM DATASETS WHERE FILESET_ID LIKE :id
ByFileset(st, id) == SelectSeq(st, LAMBDA r : r.fileset_id = id)

\* Mutant: the tarball and its manifest are removed before the outcome of
\* tar or rsync is looked at.
RouteOneRemoveFirst(tarball, rec, o, acc) ==
    LET rule == Guidance(rec.data_type, rec.instrument_type, rec.instrument_name)
        ev(op) == [op |-> op, name |-> tarball]
    IN
    IF rule = "None" THEN [acc EXCEPT !.log = @ \cup {ev("skip")}]
    ELSE IF rec.data_type # "WCSD" /\ ~o.mkdir
    THEN [acc EXCEPT !.errs = @ \o <<"Could not make new folder">>,
                     !.log = @ \cup {ev("skip")}]
    ELSE IF o.space = "fail"
    THEN [acc EXCEPT !.ret = "crash"]
    ELSE IF o.space = "short"
    THEN [acc EXCEPT !.errs = @ \o <<"math domain error">>, !.ret = "crash"]
    ELSE IF ~o.xfer
    THEN [acc EXCEPT !.staging = @ \ {tarball, ChecksumPath(tarball)},
                     !.log = @ \cup {ev("skip"), ev("rm")}]
    ELSE [acc EXCEPT
            !.landed = @ \cup {[name |-> tarball, rule |-> rule,
                                how |-> IF Untar(rule) THEN "untar" ELSE "copy"]},
            !.staging = @ \ {tarball, ChecksumPath(tarball)},
            !.log = @ \cup {ev(IF Untar(rule) THEN "extract" ELSE "copy"), ev("rm")}]

\* One pass of the loop body for a tarball whose record is rec.
RouteOne(tarball, rec, o, acc) ==
    LET rule == Guidance(rec.data_type, rec.instrument_type, rec.instrument_name)
        ev(op) == [op |-> op, name |-> tarball]
    IN
    IF rule = "None" THEN [acc EXCEPT !.log = @ \cup {ev("skip")}]
    ELSE IF rec.data_type # "WCSD" /\ ~o.mkdir
    THEN [acc EXCEPT !.errs = @ \o <<"Could not make new folder">>,
                     !.log = @ \cup {ev("skip")}]
    ELSE IF o.space = "fail"
    THEN [acc EXCEPT !.ret = "crash"]
    ELSE IF o.space = "short"
    THEN [acc EXCEPT !.errs = @ \o <<"math domain error">>, !.ret = "crash"]
    ELSE IF ~o.xfer THEN [acc EXCEPT !.log = @ \cup {ev("skip")}]
    ELSE IF Untar(rule)
    THEN [acc EXCEPT
            !.landed = @ \cup {[name |-> tarball, rule |-> rule, how |-> "untar"]},
            !.staging = (@ \ (IF o.rm THEN {tarball} ELSE {}))
                           \ (IF o.rm_md5 THEN {ChecksumPath(tarball)} ELSE {}),
            !.log = @ \cup {ev("extract")}
                      \cup (IF o.rm THEN {ev("rm")} ELSE {})
                      \cup (IF o.rm_md5 /\ ChecksumPath(tarball) \in acc.staging
                            THEN {ev("rm_md5")} ELSE {})]
    ELSE [acc EXCEPT
            !.landed = @ \cup {[name |-> tarball, rule |-> rule, how |-> "copy"]},
            !.staging = @ \ (IF o.rm THEN {tarball} ELSE {}),
            !.log = @ \cup {ev("copy")} \cup (IF o.rm THEN {ev("rm")} ELSE {})]

RECURSIVE SortLoop(_, _, _, _)
SortLoop(tarballs, st, outcome, acc) ==
    IF tarballs = <<>> THEN acc
    ELSE LET tarball == Head(tarballs) IN
         IF Len(tarball.toks) # 3 THEN [acc EXCEPT !.ret = "crash"]
         ELSE IF ByFileset(st, tarball.toks[2]) = <<>>
         THEN [acc EXCEPT !.ret = "crash"]
         ELSE LET next == RouteOne(tarball, ByFileset(st, tarball.toks[2])[1],
                                   outcome[tarball], acc)
              IN IF next.ret = "crash" THEN next
                 ELSE SortLoop(Tail(tarballs), st, outcome, next)

\* if valid: the batch sort_landing_zone works on.
Tarballs(stg, valid) ==
    IF valid
    THEN SelectSeq(ListDir(stg), LAMBDA x : EndsWithTar(x) \/ EndsWithTarGz(x))
    ELSE <<>>

SortLandingZone(stg, st, lnd, valid, outcome) ==
    SortLoop(Tarballs(stg, valid), st, outcome,
             [ret |-> "done", staging |-> stg, landed |-> lnd, errs |-> <<>>,
              log |-> {}])

----------------------------------------------------------------------------
\* The state machine: the operator runs one script at a time.

NoPrev == [remote |-> {}, persisted |-> {}, failed |-> {}, complete |-> FALSE]

NoSpace == [kind |-> "false", free |-> 0, ok |-> FALSE]

\* No call of run_subprocess is looked into.
NoCall == [at |-> "none", number_tries |-> 0, try_count |-> 0,
           process |-> [kind |-> "none", rc |-> 0, exists |-> FALSE],
           results |-> <<>>]

Init ==
    /\ archive = StandardArchive
    /\ service = StandardService
    /\ remote = {}
    /\ store = <<>>
    /\ staging = {}
    /\ landed = {}
    /\ pc = "idle"
    /\ errors = <<>>
    /\ all_dates = NoneVal
    /\ new_inventory = NoneVal
    /\ space_check = NoSpace
    /\ data_type_input = "None"
    /\ selection = EmptySelection
    /\ pulldown_list = NoneVal
    /\ fetched = {}
    /\ is_valid = FALSE
    /\ checked = <<>>
    /\ sortLog = {}
    /\ prev = NoPrev
    /\ subproc = NoCall
    /\ runs = 0

\* The names a script's run binds: gone when the process ends.
ResetRun ==
    /\ errors' = <<>>
    /\ all_dates' = NoneVal
    /\ new_inventory' = NoneVal
    /\ space_check' = NoSpace
    /\ data_type_input' = "None"
    /\ selection' = EmptySelection
    /\ pulldown_list' = NoneVal
    /\ fetched' = {}
    /\ is_valid' = FALSE
    /\ checked' = <<>>
    /\ sortLog' = {}

\* A new date directory arrives on the archive.
Publish ==
    /\ pc = "idle"
    /\ \E d \in Range(DateNames) \ remote : remote' = remote \cup {d}
    /\ UNCHANGED <<subproc, archive, service, store, staging, landed, pc, errors, all_dates,
                   new_inventory, space_check, data_type_input, selection,
                   pulldown_list, fetched, is_valid, checked, sortLog, prev, runs>>

\* python r2r_sftp_pull.py
StartPull ==
    /\ pc = "idle"
    /\ runs < MaxRuns
    /\ runs' = runs + 1
    /\ pc' = "connect"
    /\ UNCHANGED <<subproc, archive, service, remote, store, staging, landed, errors, all_dates,
                   new_inventory, space_check, data_type_input, selection,
                   pulldown_list, fetched, is_valid, checked, sortLog, prev>>

ConnectToSftp(outcomes) ==
    /\ pc = "connect"
    /\ \E o \in outcomes :
          /\ all_dates' = ConnectResult(o)
          /\ errors' = errors \o ConnectErrors(o)
    /\ pc' = "check"
    /\ UNCHANGED <<subproc, archive, service, remote, store, staging, landed, new_inventory, space_check,
                   data_type_input, selection, pulldown_list, fetched, is_valid,
                   checked, sortLog, prev, runs>>

\* The dates check_date_dirs asks the archive to list.
DatesToList(date_list, st) ==
    {d \in Range(date_list.val) :
        /\ IsNewDate(d, st)
        /\ Strptime(d) # <<>>
        /\ DateAfter(Strptime(d), CutoffDate)}

CheckDateDirsStep(outcomes) ==
    /\ pc = "check"
    /\ \E outcome \in [DatesToList(all_dates, store) -> outcomes] :
          LET r == CheckDateDirs(all_dates, store, outcome) IN
          /\ errors' = errors \o r.errs
          /\ new_inventory' = CASE r.ret = "dict" -> ListVal(r.inv)
                                [] r.ret = "zero" -> ZeroVal
                                [] OTHER -> NoneVal
          /\ pc' = IF r.ret = "crash" THEN "crashed" ELSE "build"
    /\ UNCHANGED <<subproc, archive, service, remote, store, staging, landed, all_dates, space_check,
                   data_type_input, selection, pulldown_list, fetched, is_valid,
                   checked, sortLog, prev, runs>>

\* The dates of which build_sqlite persisted a record.
PersistedDates(before, after) ==
    {after[i].date_dir : i \in (Len(before) + 1)..Len(after)}

\* What a discovery+enrichment run leaves for the next one to be compared with.
RunSummary(inv, errs, before, after, failed) ==
    [remote |-> remote,
     persisted |-> PersistedDates(before, after),
     failed |-> failed,
     complete |->
        /\ "Error in file_path" \notin Range(errs)
        /\ \A i \in 1..Len(inv) :
              Len(inv[i].cands) > 0 => inv[i].date \in PersistedDates(before, after)]

BuildSqlite(outcomes) ==
    /\ pc = "build"
    /\ IF new_inventory.kind # "list"
       THEN /\ pc' = "crashed"
            /\ UNCHANGED <<store, errors, prev>>
       ELSE \E outcome \in [CandidatePaths(new_inventory.val) -> outcomes] :
              LET r == BuildSqliteResult(new_inventory.val, store, outcome) IN
              /\ store' = r.store
              /\ errors' = errors \o r.errs
              /\ prev' = RunSummary(new_inventory.val, errors, store, r.store, r.failed)
              /\ pc' = "space"
    /\ UNCHANGED <<subproc, archive, service, remote, staging, landed, all_dates, new_inventory, space_check,
                   data_type_input, selection, pulldown_list, fetched, is_valid,
                   checked, sortLog, runs>>

LandingSpace(outcomes) ==
    /\ pc = "space"
    /\ \E o \in outcomes :
          /\ space_check' = LandingSpaceBytes(o)
          /\ errors' = IF o.probe = "parse_fail" THEN Append(errors, "AttributeError")
                       ELSE IF o.probe = "ok" /\ ConvertSizeRaises(o.avail - Minimum)
                       THEN Append(errors, "math domain error")
                       ELSE errors
    /\ pc' = "type"
    /\ UNCHANGED <<subproc, archive, service, remote, store, staging, landed, all_dates, new_inventory,
                   data_type_input, selection, pulldown_list, fetched, is_valid,
                   checked, sortLog, prev, runs>>

\* get_data_type(space_check[1]): subscripting False raises TypeError.
GetDataType(choices) ==
    /\ pc = "type"
    /\ IF space_check.kind = "false"
       THEN /\ pc' = "crashed"
            /\ UNCHANGED <<data_type_input, errors>>
       ELSE /\ \E choice \in (IF space_check.ok THEN choices ELSE {""}) :
                  /\ data_type_input' = GetDataTypeResult(space_check.ok, choice)
                  /\ errors' = IF choice = "x" THEN Append(errors, "ValueError")
                               ELSE errors
            /\ pc' = "query"
    /\ UNCHANGED <<subproc, archive, service, remote, store, staging, landed, all_dates, new_inventory,
                   space_check, selection, pulldown_list, fetched, is_valid,
                   checked, sortLog, prev, runs>>

QuerySqlite(inputs) ==
    /\ pc = "query"
    /\ \E input \in inputs :
          LET sel == Selection(store, data_type_input, space_check.free)
              r == QueryResult(sel, input)
          IN
          /\ selection' = sel
          /\ pulldown_list' = IF r.ret = "list" THEN ListVal(r.list) ELSE NoneVal
          /\ pc' = IF r.ret = "crash" THEN "crashed" ELSE "copy"
    /\ UNCHANGED <<subproc, archive, service, remote, store, staging, landed, errors, all_dates,
                   new_inventory, space_check, data_type_input, fetched, is_valid,
                   checked, sortLog, prev, runs>>

\* copy_packages(pulldown_list, ...): iterating None raises TypeError.
CopyPackages ==
    /\ pc = "copy"
    /\ IF pulldown_list.kind # "list"
       THEN /\ pc' = "crashed"
            /\ UNCHANGED <<store, staging, errors, fetched>>
       ELSE \E f \in FetchChoices(AllPaths(pulldown_list.val)) :
              LET r == CopyResult(pulldown_list.val, store, staging, f) IN
              /\ store' = r.store
              /\ staging' = r.staging
              /\ errors' = errors \o r.errs
              /\ fetched' = CleanFetches(AllPaths(pulldown_list.val), f)
              /\ pc' = "report"
    /\ UNCHANGED <<subproc, archive, service, remote, landed, all_dates, new_inventory, space_check,
                   data_type_input, selection, pulldown_list, is_valid, checked,
                   sortLog, prev, runs>>

\* if errors: print(...), the last statement of the pull script.
ReportErrors ==
    /\ pc = "report"
    /\ pc' = "idle"
    /\ ResetRun
    /\ UNCHANGED <<subproc, archive, service, remote, store, staging, landed, prev, runs>>

\* An uncaught exception ends the process.
Crash ==
    /\ pc = "crashed"
    /\ pc' = "idle"
    /\ ResetRun
    /\ UNCHANGED <<subproc, archive, service, remote, store, staging, landed, prev, runs>>

\* python r2r_validate_sort.py; get_path returns the landing directory.
StartSort ==
    /\ pc = "idle"
    /\ runs < MaxRuns
    /\ runs' = runs + 1
    /\ pc' = "validate"
    /\ UNCHANGED <<subproc, archive, service, remote, store, staging, landed, errors, all_dates,
                   new_inventory, space_check, data_type_input, selection,
                   pulldown_list, fetched, is_valid, checked, sortLog, prev>>

\* The archives validate_tarballs reads from the landing directory.
ArchivesOf(stg) ==
    Range(SelectSeq(ListDir(stg), LAMBDA x : EndsWithTar(x) \/ EndsWithGz(x)))

ValidateStep ==
    /\ pc = "validate"
    /\ \E outcome \in [ArchivesOf(staging) -> Md5Outcomes] :
          LET r == ValidateTarballs(staging, errors, outcome) IN
          /\ staging' = r.staging
          /\ errors' = r.errs
          /\ checked' = r.checked
          /\ is_valid' = (r.ret = "true")
          /\ pc' = IF r.ret = "crash" THEN "crashed" ELSE "sort"
    /\ UNCHANGED <<subproc, archive, service, remote, store, landed, all_dates, new_inventory, space_check,
                   data_type_input, selection, pulldown_list, fetched, sortLog,
                   prev, runs>>

SortStep(outcomes) ==
    /\ pc = "sort"
    /\ \E outcome \in [Range(Tarballs(staging, is_valid)) -> outcomes] :
          LET r == SortLandingZone(staging, store, landed, is_valid, outcome) IN
          /\ staging' = r.staging
          /\ landed' = r.landed
          /\ errors' = errors \o r.errs
          /\ sortLog' = r.log
          /\ pc' = IF r.ret = "crash" THEN "crashed" ELSE "exit"
    /\ UNCHANGED <<subproc, archive, service, remote, store, all_dates, new_inventory, space_check,
                   data_type_input, selection, pulldown_list, fetched, is_valid,
                   checked, prev, runs>>

\* validate_tarballs called once more in the same process, on the same
\* directory: the module's errors list is what the call before left.
Revalidate ==
    /\ pc = "sort"
    /\ Len(errors) <= MaxFails
    /\ \E outcome \in [ArchivesOf(staging) -> Md5Outcomes] :
          LET r == ValidateTarballs(staging, errors, outcome) IN
          /\ staging' = r.staging
          /\ errors' = r.errs
          /\ checked' = r.checked
          /\ is_valid' = (r.ret = "true")
          /\ pc' = IF r.ret = "crash" THEN "crashed" ELSE "sort"
    /\ UNCHANGED <<subproc, archive, service, remote, store, landed, all_dates, new_inventory, space_check,
                   data_type_input, selection, pulldown_list, fetched, sortLog,
                   prev, runs>>

\* main() returns.
ExitSort ==
    /\ pc = "exit"
    /\ pc' = "idle"
    /\ ResetRun
    /\ UNCHANGED <<subproc, archive, service, remote, store, staging, landed, prev, runs>>

----------------------------------------------------------------------------
\* The two scripts against an archive that answers every listing and a
\* metadata service that answers every lookup.

Next ==
    \/ Publish
    \/ StartPull
    \/ ConnectToSftp({"ok"})
    \/ CheckDateDirsStep({"ok"})
    \/ BuildSqlite({"ok"})
    \/ LandingSpace(SpaceOutcomes)
    \/ GetDataType(TypeChoices)
    \/ QuerySqlite(ChoiceInputs)
    \/ CopyPackages
    \/ ReportErrors
    \/ Crash
    \/ StartSort
    \/ ValidateStep
    \/ SortStep(SortOutcomes)
    \/ ExitSort

Spec == Init /\ [][Next]_vars

\* Discovery and enrichment with every outcome of the archive, the metadata
\* service and the store; the free-space probe that follows fails, which
\* ends the run.
NextDiscovery ==
    \/ Publish
    \/ StartPull
    \/ ConnectToSftp(ConnectOutcomes)
    \/ CheckDateDirsStep(ListOutcomes)
    \/ BuildSqlite(BuildOutcomes)
    \/ LandingSpace({[probe |-> "df_fail", avail |-> 0]})
    \/ GetDataType(TypeChoices)
    \/ Crash

SpecDiscovery == Init /\ [][NextDiscovery]_vars

----------------------------------------------------------------------------
\* Discovery and enrichment on any short listing of a date directory, any
\* root listing and any instrument the metadata service names.

\* Lines ls can print for a date directory: a blank line, a name without
\* '_', packages, a manifest, and a package with '.md5' inside its name.
BlankLine == Nm(<<>>, <<>>)
PlainName == Nm(<<"NOTES">>, <<"txt">>)
pkgMd5Inside == Nm(<<"ARCHIVE", "77777", "01">>, <<"md5", "tar">>)
pkgEarly == Nm(<<"EARLY", "00002", "01">>, <<"tar", "gz">>)

LinePool ==
    {BlankLine, PlainName, pkgCruise, ChecksumPath(pkgCruise), pkgEndeavor,
     pkgMd5Inside}

\* ls names a file once.
DrawnListings ==
    {l \in UNION {[1..k -> LinePool] : k \in 0..MaxLines} :
        \A i, j \in 1..Len(l) : i # j => l[i] # l[j]}

\* Names ls can print for the archive root, in its order.
RootNames ==
    <<"0-incoming", "2021-01-01", "2021-01-02", "2022-05-01", "2022-06-01", "notes">>

WideArchive ==
    [d \in Range(RootNames) |->
        IF d = "2021-01-02" THEN <<pkgEarly, ChecksumPath(UngzipName(pkgEarly))>>
        ELSE StandardListing(d)]

\* The store after an earlier run found 2022-06-01.
JuneStore ==
    <<[fileset_id |-> "54321", cruise_id |-> "EN03",
       platform_name |-> "Endeavor", instrument_name |-> "EM122",
       instrument_type |-> "Multibeam Sonar", size_bytes |-> 1,
       package_path |-> [dir |-> "2022-06-01", name |-> pkgEndeavor],
       date_dir |-> "2022-06-01", data_type |-> "Multibeam",
       been_pulled |-> "N"]>>

InitIntake ==
    /\ \/ /\ \E l \in DrawnListings :
                archive = [WideArchive EXCEPT !["2022-05-01"] = l]
          /\ service = StandardService
          /\ all_dates = ListVal(<<"2022-05-01", "2022-06-01">>)
       \/ /\ archive = WideArchive
          /\ service = StandardService
          /\ \E S \in SUBSET Range(RootNames) :
                all_dates = ListVal(SelectSeq(RootNames, LAMBDA d : d \in S))
       \/ /\ archive = WideArchive
          /\ \E t \in InstrumentTypes, n \in InstrumentNames :
                service = [StandardService EXCEPT
                             !["12345"] = [@ EXCEPT !.device_name = t,
                                                    !.make_model_name = n]]
          /\ all_dates = ListVal(<<"2022-05-01">>)
    /\ remote = Range(all_dates.val)
    /\ store \in {<<>>, JuneStore}
    /\ staging = {}
    /\ landed = {}
    /\ pc = "check"
    /\ errors = <<>>
    /\ new_inventory = NoneVal
    /\ space_check = NoSpace
    /\ data_type_input = "None"
    /\ selection = EmptySelection
    /\ pulldown_list = NoneVal
    /\ fetched = {}
    /\ is_valid = FALSE
    /\ checked = <<>>
    /\ sortLog = {}
    /\ prev = NoPrev
    /\ subproc = NoCall
    /\ runs = 1

NextIntake ==
    \/ CheckDateDirsStep({"ok"})
    \/ BuildSqlite({"ok"})
    \/ LandingSpace({[probe |-> "df_fail", avail |-> 0]})
    \/ GetDataType(TypeChoices)
    \/ Crash

SpecIntake == InitIntake /\ [][NextIntake]_vars

----------------------------------------------------------------------------
\* validate_tarballs and sort_landing_zone on a landing directory holding any
\* of the files the pull can have left there.

AllOk(S) == [x \in S |-> "ok"]

\* The store after discovery and enrichment of the whole archive.
EnrichedStore ==
    LET inv == CheckDateDirs(ListVal(DateNames), <<>>, AllOk(Range(DateNames))).inv
    IN BuildSqliteResult(inv, <<>>, AllOk(CandidatePaths(inv))).store

\* The files copy_packages fetches for the records of a store.
Fetchable(st) ==
    UNION {{st[i].package_path.name, ManifestOf(st[i].package_path.name)}
              \cap Range(Listing(st[i].package_path.dir)) : i \in 1..Len(st)}

RECURSIVE MarkAll(_, _)
MarkAll(st, names) ==
    IF names = <<>> THEN st
    ELSE MarkAll(IF \E i \in 1..Len(st) : st[i].package_path.name = Head(names)
                 THEN UpdatePulled(st,
                        (CHOOSE r \in Range(st) :
                            r.package_path.name = Head(names)).package_path)
                 ELSE st,
                 Tail(names))

InitSort ==
    /\ archive = StandardArchive
    /\ service = StandardService
    /\ remote = Range(DateNames)
    /\ staging \in SUBSET Fetchable(EnrichedStore)
    /\ store = MarkAll(EnrichedStore, ListDir(staging))
    /\ landed = {}
    /\ pc = "idle"
    /\ errors = <<>>
    /\ all_dates = NoneVal
    /\ new_inventory = NoneVal
    /\ space_check = NoSpace
    /\ data_type_input = "None"
    /\ selection = EmptySelection
    /\ pulldown_list = NoneVal
    /\ fetched = {}
    /\ is_valid = FALSE
    /\ checked = <<>>
    /\ sortLog = {}
    /\ prev = NoPrev
    /\ subproc = NoCall
    /\ runs = 0

NextSort ==
    \/ StartSort
    \/ ValidateStep
    \/ SortStep(SortOutcomes)
    \/ ExitSort
    \/ Crash

SpecSort == InitSort /\ [][NextSort]_vars

----------------------------------------------------------------------------
\* validate_tarballs and sort_landing_zone on two fetched tarballs, the
\* first with a record of any instrument or with none, while the free-space
\* probe of the destinations answers.

tarEndeavor == UngzipName(pkgEndeavor)
tarRevelle == UngzipName(pkgRevelle)

\* The record build_sqlite wrote for a package, marked by copy_packages.
PulledRecord(id, pkg) ==
    [NewRecord([r2r_id |-> id, date |-> "2022-06-01",
                package_path |-> [dir |-> "2022-06-01", name |-> pkg]])
        EXCEPT !.been_pulled = "Y"]

RouteOutcomes == {o \in SortOutcomes : o.space # "fail"}

InitRoute ==
    /\ archive = StandardArchive
    /\ \E t \in InstrumentTypes, n \in InstrumentNames :
          service = [StandardService EXCEPT
                       !["54321"] = [@ EXCEPT !.device_name = t,
                                              !.make_model_name = n]]
    /\ remote = Range(DateNames)
    /\ \E first \in {<<>>, <<PulledRecord("54321", pkgEndeavor)>>},
          second \in {<<>>, <<PulledRecord("33333", pkgRevelle)>>} :
             store = first \o second
    /\ staging = {tarEndeavor, ChecksumPath(tarEndeavor),
                  tarRevelle, ChecksumPath(tarRevelle)}
    /\ landed = {}
    /\ pc = "validate"
    /\ errors = <<>>
    /\ all_dates = NoneVal
    /\ new_inventory = NoneVal
    /\ space_check = NoSpace
    /\ data_type_input = "None"
    /\ selection = EmptySelection
    /\ pulldown_list = NoneVal
    /\ fetched = {}
    /\ is_valid = FALSE
    /\ checked = <<>>
    /\ sortLog = {}
    /\ prev = NoPrev
    /\ subproc = NoCall
    /\ runs = 1

NextRoute ==
    \/ ValidateStep
    \/ SortStep(RouteOutcomes)
    \/ ExitSort
    \/ Crash

SpecRoute == InitRoute /\ [][NextRoute]_vars

----------------------------------------------------------------------------
\* build_sqlite on an inventory of 2022-06-01 and a store that may hold
\* records of its paths already; the metadata service and the store answer.

JuneCandidates ==
    DirCandidates("2022-06-01", StandardListing("2022-06-01"),
                  [cands |-> <<>>, errs |-> <<>>]).cands

\* The stores that hold, in listing order, records of some of the paths.
DrawnJuneStores ==
    {SelectSeq([i \in 1..Len(JuneCandidates) |->
                  [NewRecord([r2r_id |-> JuneCandidates[i].r2r_id,
                              date |-> "2022-06-01",
                              package_path |-> JuneCandidates[i].package_path])
                     EXCEPT !.been_pulled = k[i]]],
               LAMBDA r : r.been_pulled # "-") :
        k \in [1..Len(JuneCandidates) -> {"-", "N", "Y"}]}

InitInsert ==
    /\ archive = StandardArchive
    /\ service = StandardService
    /\ remote = Range(DateNames)
    /\ store \in DrawnJuneStores
    /\ \E keep \in SUBSET (1..Len(JuneCandidates)) :
          new_inventory =
              ListVal(<<[date |-> "2022-06-01",
                         cands |-> SelectSeq(JuneCandidates,
                                     LAMBDA c : \E i \in keep : JuneCandidates[i] = c)]>>)
    /\ staging = {}
    /\ landed = {}
    /\ pc = "build"
    /\ errors = <<>>
    /\ all_dates = ListVal(DateNames)
    /\ space_check = NoSpace
    /\ data_type_input = "None"
    /\ selection = EmptySelection
    /\ pulldown_list = NoneVal
    /\ fetched = {}
    /\ is_valid = FALSE
    /\ checked = <<>>
    /\ sortLog = {}
    /\ prev = NoPrev
    /\ subproc = NoCall
    /\ runs = 1

NextInsert ==
    \/ BuildSqlite({"ok"})
    \/ LandingSpace({[probe |-> "df_fail", avail |-> 0]})
    \/ GetDataType(TypeChoices)
    \/ Crash

SpecInsert == InitInsert /\ [][NextInsert]_vars

----------------------------------------------------------------------------
\* validate_tarballs on landing directories that hold archives with a good
\* manifest, with none, with a blank one and with a short checksum.

ValidatePool ==
    {tarEndeavor, ChecksumPath(tarEndeavor), tarRevelle, ChecksumPath(tarRevelle),
     pkgBlank, ChecksumPath(pkgBlank), pkgShort, ChecksumPath(pkgShort)}

\* Every command of the routing succeeds.
SortOk ==
    {[mkdir |-> TRUE, space |-> "enough", xfer |-> TRUE, rm |-> TRUE, rm_md5 |-> TRUE]}

InitValidate ==
    /\ archive = StandardArchive
    /\ service = StandardService
    /\ remote = Range(DateNames)
    /\ store = <<PulledRecord("54321", pkgEndeavor), PulledRecord("33333", pkgRevelle)>>
    /\ staging \in SUBSET ValidatePool
    /\ landed = {}
    /\ pc = "validate"
    /\ errors = <<>>
    /\ all_dates = NoneVal
    /\ new_inventory = NoneVal
    /\ space_check = NoSpace
    /\ data_type_input = "None"
    /\ selection = EmptySelection
    /\ pulldown_list = NoneVal
    /\ fetched = {}
    /\ is_valid = FALSE
    /\ checked = <<>>
    /\ sortLog = {}
    /\ prev = NoPrev
    /\ subproc = NoCall
    /\ runs = 1

NextValidate ==
    \/ ValidateStep
    \/ Revalidate
    \/ SortStep(SortOk)
    \/ ExitSort
    \/ Crash

SpecValidate == InitValidate /\ [][NextValidate]_vars

----------------------------------------------------------------------------
\* copy_packages of a chosen download list, then the sort script on what
\* arrived.  The archive keeps, beside the plain CRUISE_12345_01.tar, the
\* manifest copy_packages asks for, or the one the archive lays out, or both.

CruiseListings ==
    {<<pkgCruise, ChecksumPath(pkgCruise)>>,
     <<pkgCruise, ManifestOf(pkgCruise)>>,
     <<pkgCruise, ManifestOf(pkgCruise), ChecksumPath(pkgCruise)>>}

PathOf(date, pkg) == [dir |-> date, name |-> pkg]

\* The download lists query_sqlite can hand over for WCSD.
DownloadLists ==
    {<<PathOf("2022-05-01", pkgCruise)>>,
     <<PathOf("2022-06-01", pkgAtlantis)>>,
     <<PathOf("2022-05-01", pkgCruise), PathOf("2022-06-01", pkgAtlantis)>>}

InitFetch ==
    /\ \E l \in CruiseListings :
          archive = [StandardArchive EXCEPT !["2022-05-01"] = l]
    /\ service = StandardService
    /\ remote = Range(DateNames)
    /\ store = EnrichedStore
    /\ staging = {}
    /\ landed = {}
    /\ pc = "copy"
    /\ errors = <<>>
    /\ all_dates = ListVal(DateNames)
    /\ new_inventory = ListVal(<<>>)
    /\ space_check = LandingSpaceBytes([probe |-> "ok", avail |-> Minimum + MaxFree])
    /\ data_type_input = "WCSD"
    /\ selection = Selection(store, "WCSD", MaxFree)
    /\ \E l \in DownloadLists : pulldown_list = ListVal(l)
    /\ fetched = {}
    /\ is_valid = FALSE
    /\ checked = <<>>
    /\ sortLog = {}
    /\ prev = NoPrev
    /\ subproc = NoCall
    /\ runs = 1

NextFetch ==
    \/ CopyPackages
    \/ ReportErrors
    \/ StartSort
    \/ ValidateStep
    \/ SortStep(SortOk)
    \/ ExitSort

SpecFetch == InitFetch /\ [][NextFetch]_vars

----------------------------------------------------------------------------
\* run_subprocess, one attempt at a time.

\* What subprocess.run can do: return a CompletedProcess with a return code
\* and, or not, 'file already exists' in its stdout, or raise
\* TimeoutExpired when the command outlives timeout.
AttemptOutcomes ==
    [kind : {"done"}, rc : 0..2, exists : BOOLEAN]
    \cup {[kind |-> "timeout", rc |-> 0, exists |-> FALSE]}

\* if process.returncode and 'file already exists' not in process.stdout
Failed(process) == process.rc # 0 /\ ~process.exists

\* Mutant: one attempt more before giving up.
GiveUpLate(try_count, number_tries) == try_count > number_tries

\* if try_count >= number_tries
GiveUp(try_count, number_tries) == try_count >= number_tries

\* try_count += 1; process = subprocess.run(...)
RunAttempt ==
    /\ subproc.at = "loop"
    /\ \E o \in AttemptOutcomes :
          subproc' =
             IF o.kind = "timeout"
             THEN [subproc EXCEPT !.at = "raised", !.try_count = @ + 1]
             ELSE [subproc EXCEPT !.at = "test", !.try_count = @ + 1,
                                  !.process = o, !.results = Append(@, o)]
    /\ UNCHANGED <<archive, service, remote, store, staging, landed, pc, errors,
                   all_dates, new_inventory, space_check, data_type_input,
                   selection, pulldown_list, fetched, is_valid, checked,
                   sortLog, prev, runs>>

\* time.sleep(1), and the loop goes round.
SleepAndRetry ==
    /\ subproc.at = "test"
    /\ Failed(subproc.process)
    /\ ~GiveUp(subproc.try_count, subproc.number_tries)
    /\ subproc' = [subproc EXCEPT !.at = "loop"]
    /\ UNCHANGED <<archive, service, remote, store, staging, landed, pc, errors,
                   all_dates, new_inventory, space_check, data_type_input,
                   selection, pulldown_list, fetched, is_valid, checked,
                   sortLog, prev, runs>>

\* break; return process
ReturnProcess ==
    /\ subproc.at = "test"
    /\ Failed(subproc.process) => GiveUp(subproc.try_count, subproc.number_tries)
    /\ subproc' = [subproc EXCEPT !.at = "returned"]
    /\ UNCHANGED <<archive, service, remote, store, staging, landed, pc, errors,
                   all_dates, new_inventory, space_check, data_type_input,
                   selection, pulldown_list, fetched, is_valid, checked,
                   sortLog, prev, runs>>

InitRetry ==
    /\ archive = StandardArchive
    /\ service = StandardService
    /\ remote = {}
    /\ store = <<>>
    /\ staging = {}
    /\ landed = {}
    /\ pc = "idle"
    /\ errors = <<>>
    /\ all_dates = NoneVal
    /\ new_inventory = NoneVal
    /\ space_check = NoSpace
    /\ data_type_input = "None"
    /\ selection = EmptySelection
    /\ pulldown_list = NoneVal
    /\ fetched = {}
    /\ is_valid = FALSE
    /\ checked = <<>>
    /\ sortLog = {}
    /\ prev = NoPrev
    /\ runs = 0
    /\ \E n \in 1..MaxTries :
          subproc = [NoCall EXCEPT !.at = "loop", !.number_tries = n]

NextRetry ==
    \/ RunAttempt
    \/ SleepAndRetry
    \/ ReturnProcess

\* The interpreter goes on running the call it is in.
SpecRetry == InitRetry /\ [][NextRetry]_vars /\ WF_vars(NextRetry)

----------------------------------------------------------------------------
\* The Selection Planner on any small store.

\* A record of a drawn store: its place gives it its path and its names.
SlotName(i) == Nm(<<"SLOT", <<"1", "2", "3", "4", "5">>[i], "01">>, <<"tar", "gz">>)

SlotRecord(i, kind, size) ==
    [fileset_id |-> SlotName(i).toks[2],
     cruise_id |-> SlotName(i).toks[2],
     platform_name |-> "Slot",
     instrument_name |-> "EK60",
     instrument_type |-> IF kind = "other" THEN "Multibeam Sonar" ELSE "Splitbeam Sonar",
     size_bytes |-> size,
     package_path |-> [dir |-> "2022-05-01", name |-> SlotName(i)],
     date_dir |-> "2022-05-01",
     data_type |-> IF kind = "other" THEN "Multibeam" ELSE "WCSD",
     been_pulled |-> IF kind = "pulled" THEN "Y" ELSE "N"]

SlotKinds == {"pending", "pulled", "other"}

\* The operator asks for WCSD or for Multibeam.
SelectChoices == {"1", "2"}

DrawnStore(n, k, z) == [i \in 1..n |-> SlotRecord(i, k[i], z[i])]

InitSelect ==
    /\ archive = StandardArchive
    /\ service = StandardService
    /\ remote = {}
    /\ \E n \in 0..MaxRecords :
          \E k \in [1..n -> SlotKinds], z \in [1..n -> 0..MaxSize] :
             store = DrawnStore(n, k, z)
    /\ staging = {}
    /\ landed = {}
    /\ pc = "space"
    /\ errors = <<>>
    /\ all_dates = ListVal(<<>>)
    /\ new_inventory = ListVal(<<>>)
    /\ space_check = NoSpace
    /\ data_type_input = "None"
    /\ selection = EmptySelection
    /\ pulldown_list = NoneVal
    /\ fetched = {}
    /\ is_valid = FALSE
    /\ checked = <<>>
    /\ sortLog = {}
    /\ prev = NoPrev
    /\ subproc = NoCall
    /\ runs = 1

\* The operator asks for WCSD or Multibeam and picks the first package.
NextSelect ==
    \/ LandingSpace(SpaceOutcomes)
    \/ GetDataType(SelectChoices)
    \/ QuerySqlite({<<NumTok(1)>>})

SpecSelect == InitSelect /\ [][NextSelect]_vars

----------------------------------------------------------------------------
\* The Selection Planner on stores of Pending WCSD records of one or two
\* cruises: the records of a cruise share CRUISE_ID and INSTRUMENT_NAME and
\* differ in fileset, path and size.

CruiseIds == {"CR01", "CR02"}

SharedCruiseStore(n, c, z) ==
    [i \in 1..n |-> [SlotRecord(i, "pending", z[i]) EXCEPT !.cruise_id = c[i]]]

InitPresent ==
    /\ archive = StandardArchive
    /\ service = StandardService
    /\ remote = {}
    /\ \E n \in 0..MaxRecords :
          \E c \in [1..n -> CruiseIds], z \in [1..n -> 1..MaxSize] :
             store = SharedCruiseStore(n, c, z)
    /\ staging = {}
    /\ landed = {}
    /\ pc = "space"
    /\ errors = <<>>
    /\ all_dates = ListVal(<<>>)
    /\ new_inventory = ListVal(<<>>)
    /\ space_check = NoSpace
    /\ data_type_input = "None"
    /\ selection = EmptySelection
    /\ pulldown_list = NoneVal
    /\ fetched = {}
    /\ is_valid = FALSE
    /\ checked = <<>>
    /\ sortLog = {}
    /\ prev = NoPrev
    /\ subproc = NoCall
    /\ runs = 1

NextPresent ==
    \/ LandingSpace(SpaceOutcomes)
    \/ GetDataType(SelectChoices)
    \/ QuerySqlite(ChoiceInputs)

SpecPresent == InitPresent /\ [][NextPresent]_vars

----------------------------------------------------------------------------
\* The Selection Planner on stores of Pending WCSD records, under every
\* budget up to MaxBudget.

BudgetOutcomes == {[probe |-> "ok", avail |-> Minimum + b] : b \in 0..MaxBudget}

InitBudget ==
    /\ archive = StandardArchive
    /\ service = StandardService
    /\ remote = {}
    /\ \E n \in 0..MaxRecords :
          \E z \in [1..n -> 0..MaxBig] :
             store = DrawnStore(n, [i \in 1..n |-> "pending"], z)
    /\ staging = {}
    /\ landed = {}
    /\ pc = "space"
    /\ errors = <<>>
    /\ all_dates = ListVal(<<>>)
    /\ new_inventory = ListVal(<<>>)
    /\ space_check = NoSpace
    /\ data_type_input = "None"
    /\ selection = EmptySelection
    /\ pulldown_list = NoneVal
    /\ fetched = {}
    /\ is_valid = FALSE
    /\ checked = <<>>
    /\ sortLog = {}
    /\ prev = NoPrev
    /\ subproc = NoCall
    /\ runs = 1

NextBudget ==
    \/ LandingSpace(BudgetOutcomes)
    \/ GetDataType({"1"})
    \/ QuerySqlite({<<NumTok(1)>>})

SpecBudget == InitBudget /\ [][NextBudget]_vars

----------------------------------------------------------------------------
\* Properties.

Pulled(st) == {i \in 1..Len(st) : st[i].been_pulled = "Y"}

RecordsOf(name) == Range(ByFileset(store, name.toks[2]))

\* The indices of the records that a step turns from Pending to Pulled.
NewlyPulled ==
    {i \in 1..Len(store) :
        /\ store[i].been_pulled = "N"
        /\ i <= Len(store')
        /\ store'[i].been_pulled = "Y"}

\* C1: once a record is Pulled, every step of either script leaves that
\* record in place and Pulled.
MonotonicStatus ==
    [][\A i \in Pulled(store) :
          /\ i <= Len(store')
          /\ store'[i].package_path = store[i].package_path
          /\ store'[i].been_pulled = "Y"]_vars

\* A record pulled in an earlier run is still Pulled after a later run has
\* persisted the packages of another date.
MonotonicStatusWitness ==
    /\ pc = "space"
    /\ prev.persisted # {}
    /\ \E i \in Pulled(store) : store[i].date_dir \notin prev.persisted

ValidationAllOrNothing ==
    [][/\ (pc = "validate" /\ pc' = "sort" /\ \E k \in 1..Len(checked') : ~checked'[k].ok)
            => ~is_valid'
       /\ (pc = "sort" /\ \E k \in 1..Len(checked) : ~checked[k].ok)
            => /\ landed' = landed
               /\ staging' = staging
               /\ sortLog' = {}
               /\ pc' = "exit"]_vars

\* A batch of three archives whose second fails and whose first and third
\* pass has gone through sort_landing_zone, and nothing was routed.
ValidationAllOrNothingWitness ==
    /\ pc = "exit"
    /\ Len(checked) = 3
    /\ checked[1].ok /\ ~checked[2].ok /\ checked[3].ok
    /\ sortLog = {}
    /\ landed = {}

Discovered == pc = "build" /\ new_inventory.kind = "list"

\* C7, as claimed: the second discovery against the listing the first one
\* saw yields no candidate.
SecondDiscoveryEmpty ==
    (Discovered /\ runs >= 2 /\ prev.remote = remote)
        => CandidatePaths(new_inventory.val) = {}

\* C7, amended: against the listing the previous run saw, discovery yields
\* no candidate for a date of which that run persisted a package, and none
\* at all when that run listed every date and persisted a package of each
\* date it had candidates for.
SecondDiscoverySkipsPersisted ==
    (Discovered /\ prev.remote = remote) =>
        /\ InventoryDates(new_inventory.val) \cap prev.persisted = {}
        /\ prev.complete => CandidatePaths(new_inventory.val) = {}

\* The second discovery, after a run that persisted what it found, has
\* returned no candidate.
SecondDiscoveryWitness ==
    /\ Discovered
    /\ runs >= 2
    /\ prev.remote = remote
    /\ prev.complete
    /\ prev.persisted # {}
    /\ CandidatePaths(new_inventory.val) = {}

\* C8: the dates of the mapping check_date_dirs returns are not dates of
\* the store, and no candidate has the package_path of a record.
DiscoverySkipsKnownDates ==
    Discovered =>
        /\ InventoryDates(new_inventory.val) \cap KnownDates(store) = {}
        /\ \A i \in 1..Len(store) :
              store[i].package_path \notin CandidatePaths(new_inventory.val)

\* Discovery has skipped a date of the store and returned the candidates of
\* another.
DiscoverySkipsKnownDatesWitness ==
    /\ Discovered
    /\ KnownDates(store) \cap Range(all_dates.val) # {}
    /\ CandidatePaths(new_inventory.val) # {}

\* C9: a candidate whose metadata lookup failed in the previous run is a
\* candidate again when check_date_dirs has listed the archive without error.
FailedLookupRediscovered ==
    (Discovered /\ "Error in file_path" \notin Range(errors))
        => prev.failed \subseteq CandidatePaths(new_inventory.val)

RECURSIVE SumSizes(_)
SumSizes(recs) ==
    IF recs = <<>> THEN 0 ELSE Head(recs).size_bytes + SumSizes(Tail(recs))

\* C10: the sizes of all but the last record query_sqlite accumulated add up
\* to less than the budget.
BudgetRespected ==
    (pc = "copy" /\ Len(selection.accumulated) > 0)
        => SumSizes(Front(selection.accumulated)) < space_check.free

\* query_sqlite accumulated two records or more, the last of which went
\* over the budget.
BudgetRespectedWitness ==
    /\ pc = "copy"
    /\ Len(selection.accumulated) >= 2
    /\ selection.byte_counter > space_check.free
    /\ Len(selection.accumulated) < Len(PendingOfType(store, data_type_input))

\* query_sqlite has run with budget 10 on three Pending WCSD records of
\* size 4 each (the unit being 10^9 bytes).
ThreeOfFour ==
    /\ pc = "copy"
    /\ data_type_input = "WCSD"
    /\ space_check.free = 10
    /\ Len(store) = 3
    /\ \A i \in 1..3 :
          /\ store[i].size_bytes = 4
          /\ store[i].been_pulled = "N"
          /\ store[i].data_type = "WCSD"

\* C11, as claimed: the accumulated set is the first two records, the third
\* is left out.
ScenarioStopsBeforeThird ==
    ThreeOfFour => selection.accumulated = SubSeq(store, 1, 2)

\* C11, amended: the accumulated set is all three records, the running total
\* before the third being 8, under the budget, and the total 12.
ScenarioTakesAllThree ==
    ThreeOfFour =>
        /\ selection.accumulated = store
        /\ selection.byte_counter = 12

\* The scenario has run and the total is over the budget.
ScenarioTakesAllThreeWitness ==
    /\ ThreeOfFour
    /\ Len(selection.accumulated) = 3
    /\ selection.byte_counter > space_check.free

\* The model names that carry one of the four water-column markers.
WaterColumnNames ==
    {"EM122 [water column]", "EM122 [Watercolumn]", "EM122 [Water Column]",
     "EM122 [watercolumn]"}

\* C12: every record's data_type is WCSD for a Multibeam Sonar whose model
\* name carries a water-column marker and for every Splitbeam Sonar,
\* Multibeam for any other Multibeam Sonar, and Trackline for every other
\* device, with or without a marker.
ClassificationDeterminism ==
    \A i \in 1..Len(store) :
        LET r == store[i] IN
        /\ r.data_type \in {"WCSD", "Multibeam", "Trackline"}
        /\ r.instrument_type = "Multibeam Sonar" =>
              (r.data_type = IF r.instrument_name \in WaterColumnNames
                             THEN "WCSD" ELSE "Multibeam")
        /\ r.instrument_type = "Splitbeam Sonar" => r.data_type = "WCSD"
        /\ r.instrument_type \notin {"Multibeam Sonar", "Splitbeam Sonar"} =>
              r.data_type = "Trackline"

\* build_sqlite has persisted a Gravimeter whose model name carries a
\* water-column marker, as Trackline.
ClassificationDeterminismWitness ==
    /\ pc = "space"
    /\ \E i \in 1..Len(store) :
          /\ store[i].instrument_type = "Gravimeter"
          /\ store[i].instrument_name = "EM122 [Water Column]"
          /\ store[i].data_type = "Trackline"

\* The candidates check_date_dirs returned for a line of a date's listing.
CandidatesFor(entry, line) ==
    {k \in 1..Len(entry.cands) :
        entry.cands[k].package_path = [dir |-> entry.date, name |-> line]}

EndsInMd5(line) == Len(line.exts) >= 1 /\ Last(line.exts) = "md5"

\* C13, as claimed: every entry that does not end in '.md5' yields exactly
\* one candidate, and every entry that ends in it yields none.
EveryEntryYieldsCandidate ==
    Discovered =>
        \A i \in 1..Len(new_inventory.val) :
            LET entry == new_inventory.val[i] IN
            \A line \in Range(Listing(entry.date)) :
                Cardinality(CandidatesFor(entry, line))
                    = IF EndsInMd5(line) THEN 0 ELSE 1

\* C13, amended: an entry of at least two '_'-delimited tokens with no
\* '.md5' in its name yields exactly one candidate, whose path is the
\* directory joined with the name and whose id is the second-to-last token;
\* any other entry yields none; and the listing CRUISE_12345_01.tar,
\* CRUISE_12345_01.tar.md5 ends as exactly one record, id 12345, Pending.
WellFormedEntryYieldsCandidate ==
    /\ Discovered =>
          \A i \in 1..Len(new_inventory.val) :
              LET entry == new_inventory.val[i] IN
              /\ \A line \in Range(Listing(entry.date)) :
                    IF Len(line.toks) >= 2 /\ "md5" \notin Range(line.exts)
                    THEN /\ Cardinality(CandidatesFor(entry, line)) = 1
                         /\ \A k \in CandidatesFor(entry, line) :
                               entry.cands[k].r2r_id = line.toks[Len(line.toks) - 1]
                    ELSE CandidatesFor(entry, line) = {}
              /\ \A k \in 1..Len(entry.cands) :
                    /\ entry.cands[k].package_path.dir = entry.date
                    /\ entry.cands[k].package_path.name \in Range(Listing(entry.date))
    /\ (/\ pc = "space"
        /\ "2022-05-01" \in prev.persisted
        /\ Listing("2022-05-01") = <<pkgCruise, ChecksumPath(pkgCruise)>>)
          => \E i \in 1..Len(store) :
                /\ store[i].fileset_id = "12345"
                /\ store[i].been_pulled = "N"
                /\ store[i].package_path = [dir |-> "2022-05-01", name |-> pkgCruise]
                /\ \A j \in 1..Len(store) :
                      store[j].date_dir = "2022-05-01" => j = i

\* Discovery has listed a directory holding a package, its manifest and a
\* package with '.md5' inside its name, and returned the first alone.
WellFormedEntryWitness ==
    /\ Discovered
    /\ Listing("2022-05-01") = <<pkgCruise, ChecksumPath(pkgCruise), pkgMd5Inside>>
    /\ \E i \in 1..Len(new_inventory.val) :
          /\ new_inventory.val[i].date = "2022-05-01"
          /\ Len(new_inventory.val[i].cands) = 1

\* The lines of a listing that raise IndexError.
Malformed(lines) ==
    SelectSeq(lines, LAMBDA l : Len(l.toks) = 0
                                \/ ("md5" \notin Range(l.exts) /\ Len(l.toks) < 2))

\* The lines of a listing that name a package.
WellFormed(lines) ==
    SelectSeq(lines, LAMBDA l : Len(l.toks) >= 2 /\ "md5" \notin Range(l.exts))

\* C19: the candidates of a listed directory are its well-formed entries,
\* all of them and in the listing's order, whatever malformed lines stand
\* before, between or after them, and each malformed line is one error.
MalformedEntrySkipped ==
    Discovered =>
        /\ \A i \in 1..Len(new_inventory.val) :
              LET entry == new_inventory.val[i] IN
              [k \in 1..Len(entry.cands) |-> entry.cands[k].package_path.name]
                  = WellFormed(Listing(entry.date))
        /\ Len(SelectSeq(errors, LAMBDA e : e = "IndexError"))
              = Len(Malformed(Listing("2022-05-01")))

\* A listing with a malformed line before and after a package has been
\* gone through: the package is a candidate and two errors are recorded.
MalformedEntrySkippedWitness ==
    /\ Discovered
    /\ Listing("2022-05-01") = <<BlankLine, pkgCruise, PlainName>>
    /\ Len(errors) = 2
    /\ \E i \in 1..Len(new_inventory.val) :
          /\ new_inventory.val[i].date = "2022-05-01"
          /\ Len(new_inventory.val[i].cands) = 1

\* C14: once query_sqlite has presented packages, an answer that leaves it
\* without a download list does not abort the run.
InvalidChoiceContinues ==
    (Len(selection.package_dict) > 0 /\ pulldown_list.kind # "list")
        => pc # "crashed"

\* C15: a listing that matches no objects, of the root or of a date
\* directory, leaves check_date_dirs returning its mapping and the run
\* going on.
NoMatchNonFatal ==
    /\ pc = "build" => new_inventory.kind = "list"
    /\ pc = "crashed" => (all_dates.kind # "zero" /\ new_inventory.kind # "zero")

\* The names of the archive root that parse as a date after the cutoff.
QualifyingNames == {"2021-01-02", "2022-05-01", "2022-06-01"}

\* C20: check_date_dirs ends by returning the mapping of exactly the
\* names of the root listing that are not known to the store, parse as a
\* date and are after the cutoff, whatever other names the root lists.
DiscoveryListsQualifying ==
    (/\ all_dates.kind = "list"
     /\ \/ pc = "build"
        \/ pc = "crashed" /\ new_inventory.kind = "none")
        => /\ new_inventory.kind = "list"
           /\ InventoryDates(new_inventory.val)
                 = {d \in Range(all_dates.val) \cap QualifyingNames :
                       /\ \A i \in 1..Len(store) : store[i].date_dir # d
                       /\ Listing(d) # <<>>}

\* The Pending records of the requested data type, in store order.
Matching ==
    SelectSeq(store, LAMBDA r : r.been_pulled = "N" /\ r.data_type = data_type_input)

\* The running total when query_sqlite comes to the i-th matching record.
TotalBefore(i) ==
    SumSizes(SubSeq(selection.accumulated, 1,
                    IF i - 1 < Len(selection.accumulated)
                    THEN i - 1 ELSE Len(selection.accumulated)))

\* C18: the accumulated set is a prefix of the Pending records of the
\* requested data type in store order, and the i-th of them is in it if and
\* only if the running total before it is below the budget.
GreedyPrefix ==
    pc = "copy" =>
        /\ Len(selection.accumulated) <= Len(Matching)
        /\ selection.accumulated = SubSeq(Matching, 1, Len(selection.accumulated))
        /\ \A i \in 1..Len(Matching) :
              (i <= Len(selection.accumulated)) <=> (TotalBefore(i) < space_check.free)

\* query_sqlite has passed over a Pulled record lying between two Pending
\* ones and accumulated both of these.
GreedyPrefixWitness ==
    /\ pc = "copy"
    /\ Len(store) = 3
    /\ store[2].been_pulled = "Y"
    /\ store[2].data_type = data_type_input
    /\ selection.accumulated = <<store[1], store[3]>>

\* The tarballs of the batch sort_landing_zone is about to go through.
Batch == Range(Tarballs(staging, is_valid))

HasRecord(tarball) == \E i \in 1..Len(store) : store[i].fileset_id = tarball.toks[2]

FirstRecord(tarball) ==
    store[CHOOSE i \in 1..Len(store) :
            /\ store[i].fileset_id = tarball.toks[2]
            /\ \A j \in 1..(i - 1) : store[j].fileset_id # tarball.toks[2]]

\* C16: sort_landing_zone leaves a tarball without a record where it is,
\* lands nothing for it, and goes through the other tarballs of the batch
\* to its end.
MissingRecordSkipped ==
    [][(pc = "sort" /\ \E t \in Batch : ~HasRecord(t)) =>
          /\ pc' = "exit"
          /\ \A t \in Batch :
                IF HasRecord(t)
                THEN \E ev \in sortLog' : ev.name = t
                ELSE /\ t \in staging'
                     /\ \A l \in landed' : l.name # t]_vars

\* The rule the routing is to resolve for a record.
RuleOf(r) ==
    CASE r.data_type = "WCSD" /\ r.instrument_type = "Splitbeam Sonar" -> "Splitbeam Sonar"
      [] r.data_type = "WCSD" /\ r.instrument_type # "Splitbeam Sonar" -> "WCD Multibeam"
      [] r.data_type = "Multibeam" -> "Multibeam Sonar"
      [] r.data_type = "Trackline" /\ r.instrument_type = "Gravimeter" -> "Gravimeter"
      [] r.data_type = "Trackline" /\ r.instrument_type = "Magnetometer" -> "Magnetometer"
      [] r.data_type = "Trackline" /\ r.instrument_type = "Singlebeam Sonar" ->
            IF r.instrument_name = "Knudsen [includes subbottom]"
            THEN "Subbottom" ELSE "Singlebeam Sonar"
      [] OTHER -> "None"

\* C17: what sort_landing_zone lands for a tarball is landed under the rule
\* of its record, and a tarball whose record resolves to no rule stays in
\* the landing directory with its manifest, nothing landed for it.
RuleResolution ==
    [][pc = "sort" =>
          \A t \in Batch :
              HasRecord(t) =>
                  /\ \A l \in landed' \ landed :
                        l.name = t => l.rule = RuleOf(FirstRecord(t))
                  /\ RuleOf(FirstRecord(t)) = "None" =>
                        /\ t \in staging'
                        /\ ChecksumPath(t) \in staging'
                        /\ \A l \in landed' : l.name # t]_vars

\* The batch has been gone through: the tarball of an ADCP record, which
\* no rule takes, is still in the landing directory, and the Gravimeter
\* tarball after it has landed.
RuleResolutionWitness ==
    /\ pc = "exit"
    /\ is_valid
    /\ \E i \in 1..Len(store) :
          /\ store[i].fileset_id = "54321"
          /\ store[i].instrument_type = "ADCP"
    /\ tarEndeavor \in staging
    /\ \E l \in landed : l.name = tarRevelle /\ l.rule = "Gravimeter"

\* The pass has extracted or copied the tarball.
LandedNow(t) ==
    /\ \E l \in landed' : l.name = t
    /\ \E ev \in sortLog' : ev.name = t /\ (ev.op = "extract" \/ ev.op = "copy")

Canonical(a) == IF EndsWithGz(a) THEN UngzipName(a) ELSE a

\* The archive has no manifest, or a manifest without a token, or one whose
\* first token is not 32 characters long.
BadManifest(a) ==
    \/ ChecksumPath(Canonical(a)) \notin staging
    \/ ManifestTokens(ChecksumPath(Canonical(a))) = <<>>
    \/ ManifestTokens(ChecksumPath(Canonical(a)))[1].len # 32

\* C22: validate_tarballs answers False, and goes on to the routing, when
\* an archive of the directory has no manifest, a manifest that is empty or
\* white space only, or a manifest whose first token is not 32 characters.
BadManifestFailsBatch ==
    [][(pc = "validate" /\ \E a \in ArchivesOf(staging) : BadManifest(a)) =>
          pc' = "sort" /\ ~is_valid']_vars

\* C29: validate_tarballs answers True for a directory in which every
\* archive has a manifest with a 32-character checksum equal to the
\* computed one, whatever was recorded in errors before the call.
ValidBatchReportedValid ==
    (pc = "sort" /\ \A i \in 1..Len(checked) : checked[i].ok) => is_valid

\* The candidates build_sqlite is about to go through.
Candidates == Flatten(new_inventory.val)

\* The records the store has gained in this step.
Added == SubSeq(store', Len(store) + 1, Len(store'))

\* C24: build_sqlite keeps the records the store held, adds whole records
\* of candidates only, and for every candidate either adds its record or
\* records an error: a failed insert leaves nothing of its candidate and
\* does not keep the candidates after it from being persisted.
InsertAtomic ==
    [][(pc = "build" /\ new_inventory.kind = "list") =>
          /\ Len(store') >= Len(store)
          /\ SubSeq(store', 1, Len(store)) = store
          /\ \A i \in 1..Len(Added) :
                \E j \in 1..Len(Candidates) : Added[i] = NewRecord(Candidates[j])
          /\ Len(Added) + (Len(errors') - Len(errors)) = Len(Candidates)]_vars

\* The insert of ATLANTIS_22222_01 failed in the store and the record of
\* ENDEAVOR_54321_01, the candidate after it, was committed.
InsertAtomicWitness ==
    /\ pc = "space"
    /\ new_inventory.kind = "list"
    /\ \E j \in 1..Len(Candidates) : Candidates[j].r2r_id = "22222"
    /\ Range(errors) = {"sqlite3.Error"}
    /\ \A i \in 1..Len(store) : store[i].fileset_id # "22222"
    /\ \E i \in 1..Len(store) : store[i].fileset_id = "54321"

\* C25: build_sqlite on candidates whose paths the store holds already
\* leaves the store as it was and adds nothing to errors.
DuplicateInsertBenign ==
    [][(/\ pc = "build"
        /\ new_inventory.kind = "list"
        /\ \A j \in 1..Len(Candidates) :
              \E i \in 1..Len(store) :
                  store[i].package_path = Candidates[j].package_path) =>
          store' = store /\ errors' = errors]_vars

\* C26: no step removes a record or changes a field of a record other
\* than been_pulled, and records are added by build_sqlite only, with
\* been_pulled 'N'.
AppendOnly ==
    [][/\ Len(store') >= Len(store)
       /\ \A i \in 1..Len(store) :
             store'[i] = [store[i] EXCEPT !.been_pulled = store'[i].been_pulled]
       /\ \A i \in (Len(store) + 1)..Len(store') :
             pc = "build" /\ store'[i].been_pulled = "N"]_vars

\* copy_packages has marked a record of a store that holds another record,
\* still pending.
AppendOnlyWitness ==
    /\ pc = "report"
    /\ \E i \in 1..Len(store) : store[i].been_pulled = "Y"
    /\ \E i \in 1..Len(store) : store[i].been_pulled = "N"

\* C27: a pass over a validated batch whose tarballs all have a record
\* goes through to its end, whatever the commands run for a tarball
\* answer, and has dealt with every tarball of the batch.
SortPassNeverAborts ==
    [][(pc = "sort" /\ \A t \in Batch : HasRecord(t)) =>
          /\ pc' = "exit"
          /\ \A t \in Batch : \E ev \in sortLog' : ev.name = t]_vars

\* C28: a pass that skips a tarball and goes through to its end has added
\* an entry to errors.
NoSilentSkip ==
    [][(pc = "sort" /\ pc' = "exit" /\ \E ev \in sortLog' : ev.op = "skip") =>
          Len(errors') > Len(errors)]_vars

\* C30: validate_tarballs finds the manifest of every archive of the
\* landing directory that lies there with the manifest copy_packages
\* derives for it.
DerivedManifestFound ==
    [][pc = "validate" =>
          \A a \in ArchivesOf(staging) :
              ManifestOf(a) \in staging =>
                  ChecksumPath(Canonical(a)) \in staging']_vars

\* The attempts made so far, but for the last, have all failed.
EarlierAttemptsFailed ==
    \A i \in 1..(Len(subproc.results) - 1) : Failed(subproc.results[i])

\* C23: run_subprocess comes to an end; it never makes more than
\* number_tries attempts nor an attempt after one that succeeded; what it
\* returns is the result of its last attempt, which is the first that
\* succeeded or, all having failed, attempt number_tries.
BoundedRetry ==
    /\ [](subproc.at # "none" =>
            /\ subproc.try_count <= subproc.number_tries
            /\ EarlierAttemptsFailed
            /\ subproc.at = "returned" =>
                  /\ subproc.try_count >= 1
                  /\ subproc.try_count = Len(subproc.results)
                  /\ subproc.process = subproc.results[subproc.try_count]
                  /\ Failed(subproc.process) =>
                        subproc.try_count = subproc.number_tries)
    /\ <>(subproc.at = "returned" \/ subproc.at = "raised")

\* Five attempts failed and the fifth result was returned.
BoundedRetryWitness ==
    /\ subproc.at = "returned"
    /\ subproc.number_tries = 5
    /\ subproc.try_count = 5
    /\ Failed(subproc.process)

\* The landing zone was probed in this run and its free space is below the
\* cushion: the error convert_size raised for the negative budget is kept.
ShortOfSpace == \E i \in 1..Len(errors) : errors[i] = "math domain error"

\* C31: when the free space of the landing zone is below the cushion, the
\* rest of the pull run selects nothing: get_data_type yields no data type,
\* query_sqlite accumulates no record and hands over no download list, and
\* no file is fetched and no record changes.
ShortSpaceSelectsNothing ==
    [][ShortOfSpace =>
          /\ data_type_input' = "None"
          /\ selection' = EmptySelection
          /\ pulldown_list' = NoneVal
          /\ fetched' = {}
          /\ staging' = staging
          /\ store' = store]_vars

\* The space was short, Pending records were in the store, and the run has
\* ended at the call of get_data_type.
ShortSpaceSelectsNothingWitness ==
    /\ ShortOfSpace
    /\ pc = "crashed"
    /\ \E i \in 1..Len(store) :
          store[i].been_pulled = "N" /\ store[i].data_type = "WCSD"

\* C32: every record query_sqlite has accumulated is presented as an entry
\* of its own: as many entries as accumulated records, the i-th entry with
\* the package_path and the size of the i-th accumulated record.
EveryAccumulatedPresented ==
    pc = "copy" =>
        /\ Len(selection.package_dict) = Len(selection.accumulated)
        /\ \A i \in 1..Len(selection.accumulated) :
              /\ i <= Len(selection.package_dict)
              /\ selection.package_dict[i].path =
                     selection.accumulated[i].package_path
              /\ selection.package_dict[i].size =
                     selection.accumulated[i].size_bytes

\* The path copy_packages derives for the manifest of a package.
ManifestPath(p) == [dir |-> p.dir, name |-> ManifestOf(p.name)]

\* C33: copy_packages changes a record only by marking it Pulled, and only
\* the record of a path of the download list whose own fetch returned 0
\* with at most one line on stderr and whose file is in the landing
\* directory afterwards; the record of a path whose fetch failed is left as
\* it was, whatever the fetch of its manifest did, and no manifest path is
\* the path of a record.
FetchMarksOwnRecord ==
    [][(pc = "copy" /\ pulldown_list.kind = "list") =>
          /\ Len(store') = Len(store)
          /\ \A i \in 1..Len(store) :
                LET p == store[i].package_path IN
                /\ store'[i] # store[i] =>
                      /\ store'[i] = [store[i] EXCEPT !.been_pulled = "Y"]
                      /\ p \in Range(pulldown_list.val)
                      /\ p \in fetched'
                      /\ p.name \in staging'
                /\ p \notin fetched' => store'[i] = store[i]
                /\ \A q \in Range(pulldown_list.val) : p # ManifestPath(q)]_vars

\* copy_packages has marked the record of one path of the list; the fetch
\* of the other path failed while the fetch of its manifest went through,
\* and its record is Pending.
FetchMarksOwnRecordWitness ==
    /\ pc = "report"
    /\ pulldown_list.kind = "list"
    /\ \E i \in 1..Len(store) :
          /\ store[i].been_pulled = "Y"
          /\ store[i].package_path \in fetched
    /\ \E j \in 1..Len(store) :
          /\ store[j].been_pulled = "N"
          /\ store[j].package_path \in Range(pulldown_list.val)
          /\ store[j].package_path \notin fetched
          /\ ManifestPath(store[j].package_path) \in fetched
          /\ ManifestOf(store[j].package_path.name) \in staging
====
